---- MODULE Spec2Model ----
(***************************************************************************)
(* Model of the smart-analytics backend: the AI provider gateway           *)
(* (utils/aiProviders), the statistics engine (utils/dataAnalyzer), the    *)
(* file processor (utils/fileProcessor) and the request handlers of        *)
(* controllers/uploadController and controllers/aiController.              *)
(*                                                                         *)
(* Three specifications share the variables:                               *)
(*   SpecGateway  one generateAIInsights invocation after another, for     *)
(*                every environment and every provider answer;             *)
(*   Spec         the request handlers over the Table store, calling the   *)
(*                gateway;                                                 *)
(*   SpecStats    generateSummaryStats applied to bounded tables.          *)
(***************************************************************************)
EXTENDS Integers, Sequences, FiniteSets, TLC

VARIABLES env, gw, gem, req, store, stat

vars == <<env, gw, gem, req, store, stat>>

(***************************************************************************)
(* Bounds                                                                  *)
(***************************************************************************)
\* longest provider text (in characters) the model enumerates
MaxTextLen == 2

(***************************************************************************)
(* Texts: provider answers and chat questions are sequences of characters, *)
(* so that String.prototype.trim and truthiness are computed, not assumed. *)
(***************************************************************************)
Chars == {" ", "x"}

Texts == UNION {[1..n -> Chars] : n \in 0..MaxTextLen}

RECURSIVE TrimStart(_)
TrimStart(t) == IF t # <<>> /\ Head(t) = " " THEN TrimStart(Tail(t)) ELSE t

RECURSIVE TrimEnd(_)
TrimEnd(t) ==
  IF t # <<>> /\ t[Len(t)] = " " THEN TrimEnd(SubSeq(t, 1, Len(t) - 1)) ELSE t

\* String.prototype.trim
Trim(t) == TrimEnd(TrimStart(t))

\* JavaScript truthiness of a string
Truthy(t) == t # <<>>

\* the text callOpenAI substitutes for a missing completion
PlaceholderText == <<"Unable to generate insights.">>

\* the text callHuggingFace builds from a classification answer
LabelText == <<"insight (0.99)">>

(***************************************************************************)
(* Process environment (process.env), fixed for the life of the process.   *)
(* A key is TRUE when the variable holds a non-empty string.  "" stands    *)
(* for an unset or empty variable (both falsy).                            *)
(***************************************************************************)
AIProviderValues == {"", "huggingface", "Gemini", "OPENAI", "claude"}

GeminiModelValues == {"", "gemini-1.5-pro", "tuned-model"}

Envs ==
  [AI_PROVIDER : AIProviderValues,
   HUGGINGFACE_API_KEY : BOOLEAN,
   GEMINI_API_KEY : BOOLEAN,
   OPENAI_API_KEY : BOOLEAN,
   GEMINI_MODEL : GeminiModelValues]

\* String.prototype.toLowerCase on the values of AI_PROVIDER
ToLowerCase(s) ==
  CASE s = "Gemini" -> "gemini"
    [] s = "OPENAI" -> "openai"
    [] OTHER -> s

\* the keys of the providers table of generateAIInsights
ProviderNames == {"huggingface", "gemini", "openai"}

fallbackOrder == <<"huggingface", "gemini", "openai">>

\* process.env.<PROVIDER>_API_KEY is truthy
HasKey(e, p) ==
  CASE p = "huggingface" -> e.HUGGINGFACE_API_KEY
    [] p = "gemini" -> e.GEMINI_API_KEY
    [] p = "openai" -> e.OPENAI_API_KEY
    [] OTHER -> FALSE

\* HUGGINGFACE_API_KEY || GEMINI_API_KEY || OPENAI_API_KEY
hasAnyProvider(e) ==
  e.HUGGINGFACE_API_KEY \/ e.GEMINI_API_KEY \/ e.OPENAI_API_KEY

\* (process.env.AI_PROVIDER || 'huggingface').toLowerCase()
aiProviderOf(e) ==
  ToLowerCase(IF e.AI_PROVIDER # "" THEN e.AI_PROVIDER ELSE "huggingface")

(***************************************************************************)
(* Outcome of one provider call: it returns a text or it throws.           *)
(***************************************************************************)
Returned(t) == [threw |-> FALSE, text |-> t]
Threw == [threw |-> TRUE, text |-> <<>>]

(***************************************************************************)
(* callHuggingFace.  The answer of the inference endpoint is one of:       *)
(*   neterr          fetch rejects                                         *)
(*   http503loading  503 with estimated_time                               *)
(*   http404, httpError   any other non-ok status                          *)
(*   arrayGen    [ {generated_text: text} ]                                *)
(*   arrayLabel  [ {label, score} ]                                        *)
(*   arrayStr    [ text ]                                                  *)
(*   arrayOther  [] or an array of anything else                           *)
(*   objGen      {generated_text: text}                                    *)
(*   str         text (a JSON string)                                      *)
(*   objOther    any other object                                          *)
(***************************************************************************)
HFErrorKinds == {"neterr", "http503loading", "http404", "httpError"}
HFTextKinds == {"arrayGen", "arrayStr", "objGen", "str"}
HFOtherKinds == {"arrayLabel", "arrayOther", "objOther"}

HFResponses ==
  {[kind |-> k, text |-> <<>>] : k \in HFErrorKinds \cup HFOtherKinds}
    \cup {[kind |-> k, text |-> t] : k \in HFTextKinds, t \in Texts}

callHuggingFace(e, resp) ==
  IF ~e.HUGGINGFACE_API_KEY THEN Threw
  ELSE IF resp.kind \in HFErrorKinds THEN Threw
  ELSE IF resp.kind = "arrayGen" /\ Truthy(resp.text) THEN Returned(Trim(resp.text))
  ELSE IF resp.kind = "arrayLabel" THEN Returned(LabelText)
  ELSE IF resp.kind = "arrayStr" THEN Returned(Trim(resp.text))
  ELSE IF resp.kind = "objGen" /\ Truthy(resp.text) THEN Returned(Trim(resp.text))
  ELSE IF resp.kind = "str" THEN Returned(Trim(resp.text))
  ELSE Threw

(***************************************************************************)
(* callOpenAI.  chat.completions.create rejects ("error") or resolves to a *)
(* completion whose choices[0]?.message?.content is absent or a text.      *)
(***************************************************************************)
OpenAIResponses ==
  {[kind |-> "error", text |-> <<>>], [kind |-> "noContent", text |-> <<>>]}
    \cup {[kind |-> "content", text |-> t] : t \in Texts}

callOpenAI(resp) ==
  IF resp.kind = "error" THEN Threw
  ELSE IF resp.kind = "content" /\ Truthy(resp.text) THEN Returned(resp.text)
  ELSE Returned(PlaceholderText)

(***************************************************************************)
(* callGemini.  Model names are strings; "" stands for an unset            *)
(* GEMINI_MODEL, and the empty list for availableModels == null            *)
(* (getAvailableGeminiModels returns null for an empty list, a failed      *)
(* request or a thrown error, and the 2 s timer resolves the race to null).*)
(***************************************************************************)
priorityModels ==
  <<"gemini-1.5-flash", "gemini-1.5-flash-latest", "gemini-1.5-pro", "gemini-pro">>

staticModels ==
  <<"gemini-1.5-flash", "gemini-1.5-flash-latest", "gemini-1.5-pro",
    "gemini-1.5-pro-latest", "gemini-pro", "gemini-1.0-pro">>

restStaticModels == <<"gemini-1.5-flash", "gemini-1.5-pro", "gemini-pro">>

\* what the race of getAvailableGeminiModels against the timer can resolve to
Discoveries ==
  {<<>>,
   <<"gemini-pro", "gemini-1.5-flash">>,
   <<"gemini-2.0-flash", "aqa", "gemini-1.5-pro">>,
   <<"aqa">>}

\* model.includes('gemini') on the model names of the model
IncludesGemini(m) == m \notin {"aqa", "tuned-model", ""}

Range(s) == {s[k] : k \in 1..Len(s)}

\* push every element of cands that passes keep and is not yet in opts
RECURSIVE PushNew(_, _, _)
PushNew(opts, cands, keep) ==
  IF cands = <<>> THEN opts
  ELSE LET c == Head(cands)
       IN PushNew(IF c \in keep /\ c \notin Range(opts) THEN Append(opts, c) ELSE opts,
                  Tail(cands), keep)

\* a mutant of modelOptions: without discovered models only the override
modelOptions_NoStatic(e, availableModels) ==
  LET user == IF e.GEMINI_MODEL # "" THEN <<e.GEMINI_MODEL>> ELSE <<>>
  IN IF Len(availableModels) > 0
       THEN LET withPriority == PushNew(user, priorityModels, Range(availableModels))
            IN PushNew(withPriority, availableModels,
                       {m \in Range(availableModels) : IncludesGemini(m)})
       ELSE user

\* modelOptions of callGemini
modelOptions(e, availableModels) ==
  LET user == IF e.GEMINI_MODEL # "" THEN <<e.GEMINI_MODEL>> ELSE <<>>
  IN IF Len(availableModels) > 0
       THEN LET withPriority == PushNew(user, priorityModels, Range(availableModels))
            IN PushNew(withPriority, availableModels,
                       {m \in Range(availableModels) : IncludesGemini(m)})
       ELSE user \o staticModels

\* restModelOptions of callGemini: availableModels.slice(0, 3) or the static three
restModelOptions(availableModels) ==
  IF Len(availableModels) > 0
    THEN SubSeq(availableModels, 1, IF Len(availableModels) < 3 THEN Len(availableModels) ELSE 3)
    ELSE restStaticModels

\* one generateContent call through the SDK: a text, a model-not-found error
\* (message with 'not found', '404' or 'NOT_FOUND'), or any other error
SdkResponses ==
  {[kind |-> "notFound", text |-> <<>>], [kind |-> "error", text |-> <<>>]}
    \cup {[kind |-> "text", text |-> t] : t \in Texts}

\* one direct REST call: status 404; another non-ok status whose message
\* mentions 'not found' or '404'; any other non-ok status or a rejected
\* fetch; 200 with candidates[0].content.parts[0].text; 200 without it
RestResponses ==
  {[kind |-> k, text |-> <<>>] :
     k \in {"http404", "httpNotFoundMsg", "httpError", "okMalformed"}}
    \cup {[kind |-> "okText", text |-> t] : t \in Texts}

\* a mutant of sdkAttempt: every failure moves on to the next candidate
sdkAttempt_AlwaysContinue(resp) ==
  IF resp.kind = "text" /\ Truthy(resp.text) /\ Len(Trim(resp.text)) # 0
    THEN [next |-> "return", text |-> Trim(resp.text)]
    ELSE [next |-> "continue", text |-> <<>>]

\* body of the SDK loop for one candidate: "return", "throw" or "continue"
sdkAttempt(resp) ==
  IF resp.kind = "text"
    THEN IF ~Truthy(resp.text) \/ Len(Trim(resp.text)) = 0
           THEN [next |-> "throw", text |-> <<>>]
           ELSE [next |-> "return", text |-> Trim(resp.text)]
  ELSE IF resp.kind = "notFound" THEN [next |-> "continue", text |-> <<>>]
  ELSE [next |-> "throw", text |-> <<>>]

\* a mutant of restAttempt: a text in the response is passed over
restAttempt_PassesOverText(resp) ==
  IF resp.kind = "httpError" THEN [next |-> "throw", text |-> <<>>]
  ELSE [next |-> "continue", text |-> <<>>]

\* body of the REST loop for one candidate
restAttempt(resp) ==
  IF resp.kind \in {"http404", "httpNotFoundMsg"} THEN [next |-> "continue", text |-> <<>>]
  ELSE IF resp.kind = "httpError" THEN [next |-> "throw", text |-> <<>>]
  ELSE IF resp.kind = "okText" /\ Truthy(resp.text)
    THEN [next |-> "return", text |-> Trim(resp.text)]
  ELSE [next |-> "continue", text |-> <<>>]

(***************************************************************************)
(* generateAIInsights as a process.  gw is the state of the invocation in  *)
(* progress: where it is (pc), the lower-cased AI_PROVIDER, the index into *)
(* fallbackOrder (0 while the preferred provider is being tried), the      *)
(* provider calls made so far (calls) and the outcome (result).  gem is    *)
(* the state of a callGemini in progress.                                  *)
(***************************************************************************)
NoResult == [kind |-> "none", text |-> <<>>]

GwIdle ==
  [pc |-> "idle", aiProvider |-> "", idx |-> 0, calls |-> <<>>, result |-> NoResult]

GemOff ==
  [pc |-> "off", availableModels |-> <<>>, modelOptions |-> <<>>, i |-> 0,
   restModelOptions |-> <<>>, j |-> 0]

\* entry of generateAIInsights: line 708
GwEntry(e) ==
  [pc |-> "preferred", aiProvider |-> aiProviderOf(e), idx |-> 0, calls |-> <<>>,
   result |-> NoResult]

\* the provider whose call is in progress
Calling == gw.calls[Len(gw.calls)].provider

\* a provider call made on behalf of the request being handled is counted
\* in that request
CountedIn(r) == IF r.pc = "ai" THEN [r EXCEPT !.aiCalls = @ + 1] ELSE r

\* await providers[p](prompt, systemPrompt) starts
BeginCall(p) ==
  /\ gw' = [gw EXCEPT !.pc = "calling",
                      !.calls = Append(@, [provider |-> p, outcome |-> "pending", text |-> <<>>])]
  /\ gem' = IF p = "gemini" THEN [GemOff EXCEPT !.pc = "discover"] ELSE gem
  /\ req' = CountedIn(req)

\* a mutant of AfterCall: a returned text is dropped
AfterCall_NoOutcome(g, out) ==
  IF out.threw
    THEN [g EXCEPT !.pc = "fallback", !.idx = @ + 1,
                   !.calls[Len(g.calls)].outcome = "threw"]
    ELSE [g EXCEPT !.pc = "done", !.calls[Len(g.calls)].outcome = "returned"]

\* the provider call in progress returns or throws: a returned text is the
\* result of generateAIInsights, a throw is caught and the fallback loop
\* goes on with the next provider
AfterCall(g, out) ==
  IF out.threw
    THEN [g EXCEPT !.pc = "fallback", !.idx = @ + 1,
                   !.calls[Len(g.calls)].outcome = "threw"]
    ELSE [g EXCEPT !.pc = "done", !.result = [kind |-> "text", text |-> out.text],
                   !.calls[Len(g.calls)].outcome = "returned",
                   !.calls[Len(g.calls)].text = out.text]

\* lines 717-735: the preferred provider
PreferredUsable(e, p) == p \in ProviderNames /\ HasKey(e, p)

GwPreferred ==
  /\ gw.pc = "preferred"
  /\ IF PreferredUsable(env, gw.aiProvider)
       THEN BeginCall(gw.aiProvider)
       ELSE /\ gw' = [gw EXCEPT !.pc = "fallback", !.idx = 1]
            /\ UNCHANGED <<gem, req>>
  /\ UNCHANGED <<env, store, stat>>

\* a mutant of FallbackCalls: the preferred provider is not skipped
FallbackCalls_NoSkip(e, aiProvider, p) == HasKey(e, p)

\* lines 740-762: does the fallback loop call provider p ?
FallbackCalls(e, aiProvider, p) == p # aiProvider /\ HasKey(e, p)

GwFallback ==
  /\ gw.pc = "fallback"
  /\ gw.idx <= Len(fallbackOrder)
  /\ IF FallbackCalls(env, gw.aiProvider, fallbackOrder[gw.idx])
       THEN BeginCall(fallbackOrder[gw.idx])
       ELSE /\ gw' = [gw EXCEPT !.idx = @ + 1]
            /\ UNCHANGED <<gem, req>>
  /\ UNCHANGED <<env, store, stat>>

\* a mutant of FinalError: the credentials are not looked at
FinalError_AlwaysAllFailed(e) == "AllProvidersFailed"

\* lines 764-773: the error thrown after the loop
FinalError(e) ==
  IF hasAnyProvider(e) THEN "AllProvidersFailed" ELSE "NoProviderConfigured"

GwExhausted ==
  /\ gw.pc = "fallback"
  /\ gw.idx > Len(fallbackOrder)
  /\ gw' = [gw EXCEPT !.pc = "done",
                      !.result = [kind |-> FinalError(env), text |-> <<>>]]
  /\ UNCHANGED <<env, gem, req, store, stat>>

HuggingFaceCall ==
  /\ gw.pc = "calling"
  /\ Calling = "huggingface"
  /\ \E resp \in HFResponses : gw' = AfterCall(gw, callHuggingFace(env, resp))
  /\ UNCHANGED <<env, gem, req, store, stat>>

OpenAICall ==
  /\ gw.pc = "calling"
  /\ Calling = "openai"
  /\ \E resp \in OpenAIResponses : gw' = AfterCall(gw, callOpenAI(resp))
  /\ UNCHANGED <<env, gem, req, store, stat>>

\* callGemini lines 489-545: key check, model discovery, candidate list
GeminiDiscover ==
  /\ gw.pc = "calling"
  /\ gem.pc = "discover"
  /\ IF ~env.GEMINI_API_KEY
       THEN /\ gw' = AfterCall(gw, Threw)
            /\ gem' = GemOff
       ELSE /\ \E avail \in Discoveries :
                 gem' = [gem EXCEPT !.pc = "sdk", !.availableModels = avail,
                                    !.modelOptions = modelOptions(env, avail), !.i = 1]
            /\ UNCHANGED gw
  /\ UNCHANGED <<env, req, store, stat>>

\* callGemini lines 550-591: one candidate of the SDK loop
GeminiSdk ==
  /\ gw.pc = "calling"
  /\ gem.pc = "sdk"
  /\ gem.i <= Len(gem.modelOptions)
  /\ \E resp \in SdkResponses :
       LET a == sdkAttempt(resp)
       IN IF a.next = "continue"
            THEN /\ gem' = [gem EXCEPT !.i = @ + 1]
                 /\ UNCHANGED gw
            ELSE /\ gem' = GemOff
                 /\ gw' = AfterCall(gw, IF a.next = "return" THEN Returned(a.text) ELSE Threw)
  /\ UNCHANGED <<env, req, store, stat>>

\* callGemini lines 593-599: the SDK loop is over, the REST candidates
GeminiSdkOver ==
  /\ gw.pc = "calling"
  /\ gem.pc = "sdk"
  /\ gem.i > Len(gem.modelOptions)
  /\ gem' = [gem EXCEPT !.pc = "rest",
                        !.restModelOptions = restModelOptions(gem.availableModels),
                        !.j = 1]
  /\ UNCHANGED <<env, gw, req, store, stat>>

\* callGemini lines 601-650: one candidate of the REST loop
GeminiRest ==
  /\ gw.pc = "calling"
  /\ gem.pc = "rest"
  /\ gem.j <= Len(gem.restModelOptions)
  /\ \E resp \in RestResponses :
       LET a == restAttempt(resp)
       IN IF a.next = "continue"
            THEN /\ gem' = [gem EXCEPT !.j = @ + 1]
                 /\ UNCHANGED gw
            ELSE /\ gem' = GemOff
                 /\ gw' = AfterCall(gw, IF a.next = "return" THEN Returned(a.text) ELSE Threw)
  /\ UNCHANGED <<env, req, store, stat>>

\* callGemini lines 652-667: every candidate failed
GeminiAllFailed ==
  /\ gw.pc = "calling"
  /\ gem.pc = "rest"
  /\ gem.j > Len(gem.restModelOptions)
  /\ gem' = GemOff
  /\ gw' = AfterCall(gw, Threw)
  /\ UNCHANGED <<env, req, store, stat>>

(***************************************************************************)
(* Tables.  A cell value is a string; Null is a JSON null and Undefined    *)
(* the value of a key the row does not have.  A row is an object with      *)
(* string keys, kept as the sequence of its (key, value) pairs in          *)
(* insertion order.  The conversions the code applies to cell values       *)
(* (Number, parseFloat, new Date, trim, the date patterns) are tabulated   *)
(* for the cell values of the model.                                       *)
(***************************************************************************)
Null == "<null>"
Undefined == "<undefined>"

CellStrings ==
  {"", " ", "10", "2", "x", " x", "true", "2020-01-05", "2020-01-07", "12abc", "constructor"}

\* row[name]
RECURSIVE Get(_, _)
Get(row, name) ==
  IF row = <<>> THEN Undefined
  ELSE IF Head(row).k = name THEN Head(row).v
  ELSE Get(Tail(row), name)

\* val !== null && val !== undefined && val !== ''   (negated)
IsEmptyCell(v) == v \in {Null, Undefined, ""}

\* !isNaN(Number(value)): the cell strings that are numeric literals;
\* Number(' ') is 0
NumberOk(v) == v \in {"10", "2", " "}

\* !isNaN(parseFloat(value)): the cell strings that start with a number
ParseFloatOk(v) == v \in {"10", "2", "12abc", "2020-01-05", "2020-01-07"}

\* parseFloat(value) where it is a number
ParseFloat(v) ==
  CASE v = "10" -> 10
    [] v = "2" -> 2
    [] v = "12abc" -> 12
    [] v \in {"2020-01-05", "2020-01-07"} -> 2020
    [] OTHER -> 0

\* FileProcessor.isValidDate: one of the four patterns and a valid Date
isValidDate(v) == v \in {"2020-01-05", "2020-01-07"}

\* typeof value === 'boolean' || value.toLowerCase() is 'true' or 'false'
IsBooleanCell(v) == v = "true"

\* !isNaN(new Date(val).getTime()): V8 also parses "10" and "2" as months
\* of the year 2001
DateOk(v) == v \in {"2020-01-05", "2020-01-07", "10", "2"}

\* new Date(val).getTime(), in whole days since the epoch
DateDays(v) ==
  CASE v = "2020-01-05" -> 18266
    [] v = "2020-01-07" -> 18268
    [] v = "10" -> 11596
    [] v = "2" -> 11354
    [] OTHER -> 0

\* String(val).trim()
TrimCell(v) == IF v = " x" THEN "x" ELSE IF v = " " THEN "" ELSE v

\* the keys JavaScript treats as array indices (canonical non-negative
\* integers): an object enumerates them first, in ascending order
IsIndexKey(k) == k \in {"10", "2", "2020", "2021"}
IndexOf(k) ==
  CASE k = "10" -> 10
    [] k = "2" -> 2
    [] k = "2020" -> 2020
    [] k = "2021" -> 2021
    [] OTHER -> 0

\* the sort key of an item whose comparisons yield NaN
NaNKey == 0 - 1000000

\* stable insertion of x into a sequence of (key, item) pairs sorted by key;
\* a comparison that yields NaN is not below zero and leaves x behind
RECURSIVE InsertSorted(_, _)
InsertSorted(sorted, x) ==
  IF sorted = <<>> THEN <<x>>
  ELSE IF x.key # NaNKey /\ Head(sorted).key # NaNKey /\ x.key < Head(sorted).key
    THEN <<x>> \o sorted
  ELSE <<Head(sorted)>> \o InsertSorted(Tail(sorted), x)

RECURSIVE SortPairs(_)
SortPairs(s) ==
  IF s = <<>> THEN <<>>
  ELSE InsertSorted(SortPairs(SubSeq(s, 1, Len(s) - 1)), s[Len(s)])

\* Array.prototype.sort((a, b) => keyOf(a) - keyOf(b)), which is stable:
\* keys[i] is the sort key of s[i]
SortBy(s, keys) ==
  LET sorted == SortPairs([i \in 1..Len(s) |-> [key |-> keys[i], item |-> s[i]]])
  IN [i \in 1..Len(s) |-> sorted[i].item]

\* Object.entries / Object.keys order: index keys ascending, then the
\* other keys in insertion order
ObjectEntries(obj) ==
  LET indexed == SelectSeq(obj, LAMBDA e : IsIndexKey(e.k))
  IN SortBy(indexed, [i \in 1..Len(indexed) |-> IndexOf(indexed[i].k)])
       \o SelectSeq(obj, LAMBDA e : ~IsIndexKey(e.k))

\* Object.keys(row)
Keys(row) == LET entries == ObjectEntries(row) IN [i \in 1..Len(entries) |-> entries[i].k]

(***************************************************************************)
(* FileProcessor.detectColumnType                                          *)
(***************************************************************************)
SampleRows == 10

Min(a, b) == IF a < b THEN a ELSE b

\* the number of sampled rows whose cell is counted as a number, date, boolean
RECURSIVE CountCells(_, _, _)
CountCells(sample, columnName, kind) ==
  IF sample = <<>> THEN 0
  ELSE LET value == Get(Head(sample), columnName)
           isNumber == NumberOk(value) /\ ParseFloatOk(value)
           is == IF IsEmptyCell(value) THEN "empty"
                 ELSE IF isNumber THEN "number"
                 ELSE IF isValidDate(value) THEN "date"
                 ELSE IF IsBooleanCell(value) THEN "boolean"
                 ELSE "none"
       IN (IF is = kind THEN 1 ELSE 0) + CountCells(Tail(sample), columnName, kind)

\* a mutant of RatioAbove70: a / b >= 0.7
RatioAbove70_AtLeast(a, b) == b # 0 /\ 10 * a >= 7 * b

\* a / b > 0.7 in floating point; 0 / 0 is NaN and compares false
RatioAbove70(a, b) == b # 0 /\ 10 * a > 7 * b

\* a mutant of detectColumnType: the whole table is the sample
detectColumnType_WholeTable(data, columnName) ==
  IF Len(data) = 0 THEN "string"
  ELSE LET sample == data
           numberCount == CountCells(sample, columnName, "number")
           dateCount == CountCells(sample, columnName, "date")
           booleanCount == CountCells(sample, columnName, "boolean")
           totalValid == numberCount + dateCount + booleanCount
       IN IF RatioAbove70(numberCount, totalValid) THEN "number"
          ELSE IF RatioAbove70(dateCount, totalValid) THEN "date"
          ELSE IF RatioAbove70(booleanCount, totalValid) THEN "boolean"
          ELSE "string"

\* a mutant of detectColumnType: the non-empty sampled values are the total
detectColumnType_NonEmptyTotal(data, columnName) ==
  IF Len(data) = 0 THEN "string"
  ELSE LET sampleSize == Min(SampleRows, Len(data))
           sample == SubSeq(data, 1, sampleSize)
           numberCount == CountCells(sample, columnName, "number")
           dateCount == CountCells(sample, columnName, "date")
           booleanCount == CountCells(sample, columnName, "boolean")
           totalValid == sampleSize - CountCells(sample, columnName, "empty")
       IN IF RatioAbove70(numberCount, totalValid) THEN "number"
          ELSE IF RatioAbove70(dateCount, totalValid) THEN "date"
          ELSE IF RatioAbove70(booleanCount, totalValid) THEN "boolean"
          ELSE "string"

detectColumnType(data, columnName) ==
  IF Len(data) = 0 THEN "string"
  ELSE LET sampleSize == Min(SampleRows, Len(data))
           sample == SubSeq(data, 1, sampleSize)
           numberCount == CountCells(sample, columnName, "number")
           dateCount == CountCells(sample, columnName, "date")
           booleanCount == CountCells(sample, columnName, "boolean")
           totalValid == sampleSize - (sampleSize - numberCount - dateCount - booleanCount)
       IN IF RatioAbove70(numberCount, totalValid) THEN "number"
          ELSE IF RatioAbove70(dateCount, totalValid) THEN "date"
          ELSE IF RatioAbove70(booleanCount, totalValid) THEN "boolean"
          ELSE "string"

(***************************************************************************)
(* FileProcessor.processCSV and processExcel.  The input is what the       *)
(* parsing library yields for the file: a read error, or the rows.         *)
(***************************************************************************)
\* columns.add(key) for every key of every row, in order: a Set keeps
\* first-insertion order
RECURSIVE AddAll(_, _)
AddAll(set, keys) ==
  IF keys = <<>> THEN set
  ELSE AddAll(IF Head(keys) \in Range(set) THEN set ELSE Append(set, Head(keys)),
              Tail(keys))

RECURSIVE AllKeys(_, _)
AllKeys(set, rows) ==
  IF rows = <<>> THEN set ELSE AllKeys(AddAll(set, Keys(Head(rows))), Tail(rows))

Describe(data, names) ==
  [i \in 1..Len(names) |-> [name |-> names[i], type |-> detectColumnType(data, names[i])]]

ParseFailed ==
  [ok |-> FALSE, settled |-> TRUE, data |-> <<>>, columns |-> <<>>, rowCount |-> 0]

\* the promise of processCSV is neither resolved nor rejected: 'error' is
\* listened for on the parser stream only, pipe() does not forward the
\* 'error' of the read stream, and that event has no listener
ParseUnsettled == [ParseFailed EXCEPT !.settled = FALSE]

processCSV(file) ==
  IF ~file.onDisk THEN ParseFailed
  ELSE IF file.streamError THEN ParseUnsettled
  ELSE IF ~file.readable THEN ParseFailed
  ELSE [ok |-> TRUE, settled |-> TRUE, data |-> file.rows,
        columns |-> Describe(file.rows, AllKeys(<<>>, file.rows)),
        rowCount |-> Len(file.rows)]

processExcel(file) ==
  IF ~file.onDisk \/ ~file.readable THEN ParseFailed
  ELSE IF Len(file.rows) = 0 THEN ParseFailed
  ELSE [ok |-> TRUE, settled |-> TRUE, data |-> file.rows,
        columns |-> Describe(file.rows, Keys(file.rows[1])),
        rowCount |-> Len(file.rows)]

(***************************************************************************)
(* DataAnalyzer.generateSummaryStats.  A JavaScript object (numericStats,  *)
(* valueCounts, ...) is the sequence of its (key, value) pairs in          *)
(* insertion order; ObjectEntries gives its enumeration order.             *)
(***************************************************************************)
HasKeyIn(obj, key) == \E i \in 1..Len(obj) : obj[i].k = key

\* obj[key] = value
ObjSet(obj, key, value) ==
  IF HasKeyIn(obj, key)
    THEN [i \in 1..Len(obj) |-> IF obj[i].k = key THEN [k |-> key, v |-> value] ELSE obj[i]]
    ELSE Append(obj, [k |-> key, v |-> value])

RECURSIVE Sum(_)
Sum(s) == IF s = <<>> THEN 0 ELSE Head(s) + Sum(Tail(s))

\* data.map(row => row[name]).filter(non-empty)
ColumnValues(data, name) ==
  SelectSeq([i \in 1..Len(data) |-> Get(data[i], name)], LAMBDA v : ~IsEmptyCell(v))

\* a mutant of NumericEntry: the values are not sorted
NumericEntry_Unsorted(values, rowCount) ==
  LET kept == SelectSeq(values, ParseFloatOk)
      numericValues == [i \in 1..Len(kept) |-> ParseFloat(kept[i])]
      sorted == numericValues
      n == Len(sorted)
  IN [count |-> n,
      nullCount |-> rowCount - n,
      min |-> sorted[1],
      max |-> sorted[n],
      sum |-> Sum(numericValues),
      mean |-> <<Sum(numericValues), n>>,
      median2 |-> IF n % 2 = 0 THEN sorted[n \div 2] + sorted[n \div 2 + 1]
                  ELSE 2 * sorted[n \div 2 + 1]]

\* the entry of a number column.  mean is kept as the pair (sum, count) it
\* is the quotient of, and the median as twice its value (median2).
NumericEntry(values, rowCount) ==
  LET kept == SelectSeq(values, ParseFloatOk)
      numericValues == [i \in 1..Len(kept) |-> ParseFloat(kept[i])]
      sorted == SortBy(numericValues, numericValues)
      n == Len(sorted)
  IN [count |-> n,
      nullCount |-> rowCount - n,
      min |-> sorted[1],
      max |-> sorted[n],
      sum |-> Sum(numericValues),
      mean |-> <<Sum(numericValues), n>>,
      median2 |-> IF n % 2 = 0 THEN sorted[n \div 2] + sorted[n \div 2 + 1]
                  ELSE 2 * sorted[n \div 2 + 1]]

\* the keys every object inherits from Object.prototype, among the cell
\* strings: valueCounts[key] is a function before the key is ever set
InheritedKeys == {"constructor"}

\* a count that is not a number: (valueCounts[key] || 0) + 1 with a function
\* or a string for valueCounts[key] is a string concatenation
NotACount == 0 - 1

\* valueCounts of a string column
RECURSIVE CountValues(_, _)
CountValues(counts, values) ==
  IF values = <<>> THEN counts
  ELSE LET key == TrimCell(Head(values))
           old == IF HasKeyIn(counts, key) THEN Get(counts, key)
                  ELSE IF key \in InheritedKeys THEN NotACount
                  ELSE 0
           new == IF old = NotACount THEN NotACount ELSE old + 1
       IN CountValues(ObjSet(counts, key, new), Tail(values))

TopN == 5

\* ((count / total) * 100).toFixed(2), in hundredths of a percent; 'NaN'
\* for a count that is not a number
Percentage(count, total) ==
  IF count = NotACount THEN NotACount ELSE (((count * 100000) \div total) + 5) \div 10

CategoricalEntry(values, rowCount) ==
  LET valueCounts == CountValues(<<>>, values)
      entries == ObjectEntries(valueCounts)
      sortedCounts == SortBy(entries, [i \in 1..Len(entries) |->
                                         IF entries[i].v = NotACount THEN NaNKey
                                         ELSE 0 - entries[i].v])
      top == SubSeq(sortedCounts, 1, Min(TopN, Len(sortedCounts)))
  IN [uniqueValues |-> Len(sortedCounts),
      totalCount |-> Len(values),
      nullCount |-> rowCount - Len(values),
      topValues |-> [i \in 1..Len(top) |->
                       [value |-> top[i].k, count |-> top[i].v,
                        percentage |-> Percentage(top[i].v, Len(values))]],
      mostFrequent |-> IF Len(sortedCounts) > 0 THEN sortedCounts[1].k ELSE Null]

\* the entry of a date column; earliest, latest and span in whole days
DateEntry(values, rowCount) ==
  LET kept == SelectSeq(values, DateOk)
      timestamps == [i \in 1..Len(kept) |-> DateDays(kept[i])]
      sorted == SortBy(timestamps, timestamps)
      n == Len(sorted)
  IN [count |-> n,
      nullCount |-> rowCount - n,
      earliest |-> sorted[1],
      latest |-> sorted[n],
      span |-> sorted[n] - sorted[1]]

\* the properties the stats object has: stats[`${type}Stats`] is one of
\* them only for type 'date'
StatsProperties == {"numericStats", "categoricalStats", "dateStats"}

\* `${type}Stats`
StatsKeyOf(type) ==
  CASE type = "number" -> "numberStats"
    [] type = "string" -> "stringStats"
    [] type = "date" -> "dateStats"
    [] type = "boolean" -> "booleanStats"
    [] OTHER -> "otherStats"

\* the body of columns.forEach for one column: the stats after it, with
\* threw set when it raises a TypeError
ProcessColumn(stats, data, column) ==
  LET name == column.name
      type == column.type
      values == ColumnValues(data, name)
  IN IF Len(values) = 0
       THEN IF StatsKeyOf(type) \notin StatsProperties
              THEN [stats EXCEPT !.threw = TRUE]
              ELSE [stats EXCEPT !.dateStats = ObjSet(@, name, [nullCount |-> Len(data)])]
     ELSE IF type = "number"
       THEN IF Len(SelectSeq(values, ParseFloatOk)) > 0
              THEN [stats EXCEPT !.numericStats = ObjSet(@, name, NumericEntry(values, Len(data)))]
              ELSE stats
     ELSE IF type = "string"
       THEN [stats EXCEPT !.categoricalStats =
                            ObjSet(@, name, CategoricalEntry(values, Len(data)))]
     ELSE IF type = "date"
       THEN IF Len(SelectSeq(values, DateOk)) > 0
              THEN [stats EXCEPT !.dateStats = ObjSet(@, name, DateEntry(values, Len(data)))]
              ELSE stats
     ELSE stats

RECURSIVE ProcessColumns(_, _, _)
ProcessColumns(stats, data, columns) ==
  IF columns = <<>> \/ stats.threw THEN stats
  ELSE ProcessColumns(ProcessColumn(stats, data, Head(columns)), data, Tail(columns))

\* a mutant of generateSummaryStats: the result depends on the number of
\* calls made before
generateSummaryStats_Counting(data, columns) ==
  [threw |-> FALSE, rowCount |-> Len(data) + stat.calls, columnCount |-> Len(columns),
   columns |-> columns, numericStats |-> <<>>, categoricalStats |-> <<>>, dateStats |-> <<>>]

generateSummaryStats(data, columns) ==
  IF Len(data) = 0
    THEN [threw |-> FALSE, rowCount |-> 0, columnCount |-> Len(columns), columns |-> <<>>,
          numericStats |-> <<>>, categoricalStats |-> <<>>, dateStats |-> <<>>]
    ELSE ProcessColumns(
           [threw |-> FALSE, rowCount |-> Len(data), columnCount |-> Len(columns),
            columns |-> columns,
            numericStats |-> <<>>, categoricalStats |-> <<>>, dateStats |-> <<>>],
           data, columns)

(***************************************************************************)
(* The Table store (the FileData collection).  store[id] is the document   *)
(* with _id = id, or a tombstone once it was deleted; ids are never        *)
(* reused.                                                                 *)
(***************************************************************************)
\* the number of Tables ever saved
MaxTables == 1

Users == {"u1", "u2"}

\* the fileId of a request: 0 is a missing or empty fileId, the ids above
\* the store's length are well-formed ids of no Table
FileIds == 0..(MaxTables + 1)

Tombstone ==
  [present |-> FALSE, userId |-> "", fileType |-> "", data |-> <<>>, columns |-> <<>>,
   rowCount |-> 0]

\* a mutant of findOne: the owner is not part of the filter
findOne_AnyOwner(st, fileId, userId) ==
  IF fileId \in 1..Len(st) /\ st[fileId].present THEN fileId ELSE 0

\* FileData.findOne({ _id: fileId, userId }): the id of the document, 0 for null
findOne(st, fileId, userId) ==
  IF fileId \in 1..Len(st) /\ st[fileId].present /\ st[fileId].userId = userId
    THEN fileId ELSE 0

\* FileData.find({ userId }).sort({ uploadDate: -1 }): the ids, newest first
RECURSIVE find(_, _, _)
find(st, userId, id) ==
  IF id = 0 THEN <<>>
  ELSE (IF st[id].present /\ st[id].userId = userId THEN <<id>> ELSE <<>>)
         \o find(st, userId, id - 1)

\* a mutant of findOneAndDelete: the owner is not part of the filter
findOneAndDelete_AnyOwner(st, fileId, userId) ==
  IF fileId \in 1..Len(st) /\ st[fileId].present
    THEN [doc |-> fileId, store |-> [st EXCEPT ![fileId] = Tombstone]]
    ELSE [doc |-> 0, store |-> st]

\* a mutant of findOneAndDelete: the document is found and left in the store
findOneAndDelete_FindOnly(st, fileId, userId) ==
  IF fileId \in 1..Len(st) /\ st[fileId].present /\ st[fileId].userId = userId
    THEN [doc |-> fileId, store |-> st]
    ELSE [doc |-> 0, store |-> st]

\* FileData.findOneAndDelete({ _id: fileId, userId }): the id of the deleted
\* document (0 for null) and the store afterwards
findOneAndDelete(st, fileId, userId) ==
  IF fileId \in 1..Len(st) /\ st[fileId].present /\ st[fileId].userId = userId
    THEN [doc |-> fileId, store |-> [st EXCEPT ![fileId] = Tombstone]]
    ELSE [doc |-> 0, store |-> st]

(***************************************************************************)
(* Uploaded files.  originalname is the file name split at the dots.       *)
(***************************************************************************)
Cell(name, value) == [k |-> name, v |-> value]

RowsGood == << <<Cell("a", "10"), Cell("b", "x")>>, <<Cell("a", "2"), Cell("b", " x")>> >>
RowsEmptyColumn == << <<Cell("a", "10"), Cell("b", "")>> >>
RowsNoName == << <<Cell("", "x")>> >>
RowsNone == <<>>

File(name, onDisk, readable, rows) ==
  [present |-> TRUE, originalname |-> name, onDisk |-> onDisk, readable |-> readable,
   rows |-> rows, streamError |-> FALSE]

\* a file that exists when existsSync looks at it and whose read stream then
\* emits 'error' (removed or unreadable when createReadStream opens it)
StreamFails(file) == [file EXCEPT !.streamError = TRUE]

\* req.file is undefined
NoFile ==
  [present |-> FALSE, originalname |-> <<>>, onDisk |-> FALSE, readable |-> FALSE,
   rows |-> <<>>, streamError |-> FALSE]

UploadFiles ==
  {File(<<"data", "csv">>, TRUE, TRUE, RowsGood),
   File(<<"data", "csv">>, TRUE, TRUE, RowsEmptyColumn),
   File(<<"data", "csv">>, TRUE, TRUE, RowsNoName),
   File(<<"data", "csv">>, TRUE, FALSE, RowsNone),
   File(<<"data", "csv">>, FALSE, FALSE, RowsNone),
   StreamFails(File(<<"data", "csv">>, TRUE, FALSE, RowsNone)),
   File(<<"Book", "XLSX">>, TRUE, TRUE, RowsGood),
   File(<<"old", "xls">>, TRUE, FALSE, RowsNone),
   File(<<"notes", "txt">>, TRUE, TRUE, RowsGood),
   File(<<"DATA", "Csv">>, TRUE, TRUE, RowsGood),
   File(<<"data", "csv", "bak">>, TRUE, TRUE, RowsGood),
   File(<<"README">>, TRUE, TRUE, RowsGood),
   NoFile}

\* String.prototype.toLowerCase on the file name segments of the model
LowerSegment(s) ==
  CASE s = "XLSX" -> "xlsx"
    [] s = "Csv" -> "csv"
    [] s = "DATA" -> "data"
    [] s = "README" -> "readme"
    [] OTHER -> s

\* a mutant of getFileType: the extension is not lower-cased
getFileType_AsWritten(fileName) == fileName[Len(fileName)]

\* FileProcessor.getFileType: fileName.split('.').pop().toLowerCase()
getFileType(fileName) == LowerSegment(fileName[Len(fileName)])

\* a mutant of ColumnsValid: only the type of a column is validated
ColumnsValid_TypeOnly(columns) == \A i \in 1..Len(columns) : columns[i].type # ""

\* the column validation of uploadFile, lines 75-84
ColumnsValid(columns) ==
  \A i \in 1..Len(columns) : columns[i].name # "" /\ columns[i].type # ""

(***************************************************************************)
(* The request handlers.  req is the request being handled or, once        *)
(* pc = "done", the last request with its response.                        *)
(***************************************************************************)
NoQuestion == [present |-> FALSE, text |-> <<>>]

\* a missing question, '', ' ', 'x' and ' x'
Questions ==
  {NoQuestion} \cup {[present |-> TRUE, text |-> t] : t \in {<<>>, <<" ">>, <<"x">>, <<" ", "x">>}}

\* a mutant of QuestionMissing: the question is not trimmed
QuestionMissing_NoTrim(q) == ~q.present \/ ~Truthy(q.text)

\* !question || !question.trim()
QuestionMissing(q) == ~q.present \/ ~Truthy(q.text) \/ ~Truthy(Trim(q.text))

NewRequest(kind, user, fileId, question, file) ==
  [pc |-> "start", kind |-> kind, user |-> user, fileId |-> fileId,
   question |-> question, file |-> file, status |-> 0, message |-> "",
   responses |-> 0, found |-> 0, listed |-> <<>>, lookups |-> 0, dbFailed |-> FALSE,
   statsThrew |-> FALSE, aiCalls |-> 0, parser |-> "none", saved |-> 0, cleanups |-> 0,
   tempLeft |-> file.onDisk]

\* res.status(status).json(...)
Respond(r, status, message) ==
  [r EXCEPT !.pc = "done", !.status = status, !.message = message,
            !.responses = @ + 1]

\* the 'error' event of the read stream has no listener: the event is thrown
\* outside the handler's try block, the request is never answered
Unanswered(r) == [r EXCEPT !.pc = "crashed"]

\* FileProcessor.cleanupFile(req.file.path): the file is unlinked if it
\* exists; a failure of unlinkSync is logged and swallowed
cleanupFile(r, unlinkOk) ==
  [r EXCEPT !.cleanups = @ + 1, !.tempLeft = @ /\ ~unlinkOk]

\* no request yet
ReqIdle == [NewRequest("none", "", 0, NoQuestion, NoFile) EXCEPT !.pc = "idle"]

\* the document uploadFile saves
NewDocument(userId, fileType, processedData) ==
  [present |-> TRUE, userId |-> userId, fileType |-> fileType,
   data |-> processedData.data, columns |-> processedData.columns,
   rowCount |-> processedData.rowCount]

\* the catch block of uploadFile, lines 124-137
uploadCatch(r, unlinkOk) ==
  Respond(IF r.file.present /\ r.file.onDisk THEN cleanupFile(r, unlinkOk) ELSE r,
          500, "Error processing file")

\* uploadFile: the request and the store after it.  dbOk: fileData.save()
\* succeeds; unlinkOk: unlinkSync succeeds.
uploadFile(r, st, dbOk, unlinkOk) ==
  IF ~r.file.present
    THEN [req |-> Respond(r, 400, "No file uploaded"), store |-> st]
  ELSE
    LET fileType == getFileType(r.file.originalname)
        isCsv == fileType = "csv"
        isExcel == fileType \in {"xlsx", "xls"}
        processedData == IF isCsv THEN processCSV(r.file) ELSE processExcel(r.file)
        parsed == [r EXCEPT !.parser = IF isCsv THEN "csv" ELSE "excel"]
    IN IF ~isCsv /\ ~isExcel
         THEN [req |-> Respond(r, 400, "Unsupported file type"), store |-> st]
       ELSE IF ~processedData.settled
         THEN [req |-> Unanswered(parsed), store |-> st]
       ELSE IF ~processedData.ok
         THEN [req |-> Respond(parsed, 500, "Error processing file: "), store |-> st]
       ELSE IF ~ColumnsValid(processedData.columns)
         THEN [req |-> uploadCatch(parsed, unlinkOk), store |-> st]
       ELSE IF ~dbOk
         THEN [req |-> uploadCatch([parsed EXCEPT !.dbFailed = TRUE], unlinkOk), store |-> st]
       ELSE [req |-> Respond(cleanupFile([parsed EXCEPT !.saved = Len(st) + 1], unlinkOk),
                             201, "File uploaded and processed successfully"),
             store |-> Append(st, NewDocument(r.user, fileType, processedData))]

\* getUserFiles
getUserFiles(r, st, dbOk) ==
  IF ~dbOk THEN Respond([r EXCEPT !.dbFailed = TRUE], 500, "Error fetching files")
  ELSE Respond([r EXCEPT !.listed = find(st, r.user, Len(st))], 200, "")

\* getFileData
getFileData(r, st, dbOk) ==
  IF ~dbOk THEN Respond([r EXCEPT !.dbFailed = TRUE, !.lookups = @ + 1], 500,
                        "Error fetching file data")
  ELSE LET fileData == findOne(st, r.fileId, r.user)
           looked == [r EXCEPT !.lookups = @ + 1, !.found = fileData]
       IN IF fileData = 0 THEN Respond(looked, 404, "File not found")
          ELSE Respond(looked, 200, "")

\* deleteFile: the request and the store after it
deleteFile(r, st, dbOk) ==
  IF ~dbOk
    THEN [req |-> Respond([r EXCEPT !.dbFailed = TRUE, !.lookups = @ + 1], 500,
                          "Error deleting file"),
          store |-> st]
  ELSE LET deleted == findOneAndDelete(st, r.fileId, r.user)
           fileData == deleted.doc
           looked == [r EXCEPT !.lookups = @ + 1, !.found = fileData]
       IN [req |-> IF fileData = 0 THEN Respond(looked, 404, "File not found")
                   ELSE Respond(looked, 200, "File deleted successfully"),
           store |-> deleted.store]

\* getSummaryStats
getSummaryStats(r, st, dbOk) ==
  IF r.fileId = 0 THEN Respond(r, 400, "File ID is required")
  ELSE IF ~dbOk
    THEN Respond([r EXCEPT !.dbFailed = TRUE, !.lookups = @ + 1], 500,
                 "Error generating summary statistics")
  ELSE LET fileData == findOne(st, r.fileId, r.user)
           looked == [r EXCEPT !.lookups = @ + 1, !.found = fileData]
       IN IF fileData = 0 THEN Respond(looked, 404, "File not found")
          ELSE IF generateSummaryStats(st[fileData].data, st[fileData].columns).threw
            THEN Respond([looked EXCEPT !.statsThrew = TRUE], 500,
                         "Error generating summary statistics")
          ELSE Respond(looked, 200, "")

\* the configuration check of generateInsights and chat comes before the
\* lookup (lines 22-32 and 187-197)
ProviderCheckPasses(e) == hasAnyProvider(e)

\* generateInsights and chat up to the call of generateAIInsights: the
\* request is answered (pc = "done") or waits for the gateway (pc = "ai")
aiBegin(r, st, e, dbOk) ==
  LET generic == IF r.kind = "chat" THEN "Error processing chat request"
                 ELSE "Error generating insights"
  IN IF r.fileId = 0 THEN Respond(r, 400, "File ID is required")
     ELSE IF r.kind = "chat" /\ QuestionMissing(r.question)
       THEN Respond(r, 400, "Question is required")
     ELSE IF ~ProviderCheckPasses(e)
       THEN Respond(r, 500, "No AI provider is configured")
     ELSE IF ~dbOk
       THEN Respond([r EXCEPT !.dbFailed = TRUE, !.lookups = @ + 1], 500, generic)
     ELSE LET fileData == findOne(st, r.fileId, r.user)
              looked == [r EXCEPT !.lookups = @ + 1, !.found = fileData]
          IN IF fileData = 0 THEN Respond(looked, 404, "File not found")
             ELSE IF generateSummaryStats(st[fileData].data, st[fileData].columns).threw
               THEN Respond([looked EXCEPT !.statsThrew = TRUE], 500, generic)
             ELSE [looked EXCEPT !.pc = "ai"]

\* generateInsights and chat after generateAIInsights returned or threw
aiEnd(r, result) ==
  IF result.kind = "text" THEN Respond(r, 200, "")
  ELSE Respond(r, 500, "Error calling AI API: ")

(***************************************************************************)
(* Actions of the service: one request at a time.                          *)
(***************************************************************************)
\* no request is waiting for the gateway, and the process has not been ended
\* by an uncaught exception
Free == req.pc \notin {"ai", "crashed"}

UploadFile ==
  /\ Free
  /\ Len(store) < MaxTables
  /\ \E u \in Users, f \in UploadFiles, dbOk \in BOOLEAN, unlinkOk \in BOOLEAN :
       LET out == uploadFile(NewRequest("uploadFile", u, 0, NoQuestion, f), store,
                             dbOk, unlinkOk)
       IN /\ req' = out.req
          /\ store' = out.store
  /\ UNCHANGED <<env, gw, gem, stat>>

GetUserFiles ==
  /\ Free
  /\ \E u \in Users, dbOk \in BOOLEAN :
       req' = getUserFiles(NewRequest("getUserFiles", u, 0, NoQuestion, NoFile), store, dbOk)
  /\ UNCHANGED <<env, gw, gem, store, stat>>

GetFileData ==
  /\ Free
  /\ \E u \in Users, id \in FileIds \ {0}, dbOk \in BOOLEAN :
       req' = getFileData(NewRequest("getFileData", u, id, NoQuestion, NoFile), store, dbOk)
  /\ UNCHANGED <<env, gw, gem, store, stat>>

DeleteFile ==
  /\ Free
  /\ \E u \in Users, id \in FileIds \ {0}, dbOk \in BOOLEAN :
       LET out == deleteFile(NewRequest("deleteFile", u, id, NoQuestion, NoFile), store, dbOk)
       IN /\ req' = out.req
          /\ store' = out.store
  /\ UNCHANGED <<env, gw, gem, stat>>

GetSummaryStats ==
  /\ Free
  /\ \E u \in Users, id \in FileIds, dbOk \in BOOLEAN :
       req' = getSummaryStats(NewRequest("getSummaryStats", u, id, NoQuestion, NoFile),
                              store, dbOk)
  /\ UNCHANGED <<env, gw, gem, store, stat>>

GenerateInsights ==
  /\ Free
  /\ \E u \in Users, id \in FileIds, dbOk \in BOOLEAN :
       req' = aiBegin(NewRequest("generateInsights", u, id, NoQuestion, NoFile),
                      store, env, dbOk)
  /\ gw' = IF req'.pc = "ai" THEN GwEntry(env) ELSE gw
  /\ UNCHANGED <<env, gem, store, stat>>

Chat ==
  /\ Free
  /\ \E u \in Users, id \in FileIds, q \in Questions, dbOk \in BOOLEAN :
       req' = aiBegin(NewRequest("chat", u, id, q, NoFile), store, env, dbOk)
  /\ gw' = IF req'.pc = "ai" THEN GwEntry(env) ELSE gw
  /\ UNCHANGED <<env, gem, store, stat>>

\* generateAIInsights returned or threw: the handler answers
AIRespond ==
  /\ req.pc = "ai"
  /\ gw.pc = "done"
  /\ req' = aiEnd(req, gw.result)
  /\ gw' = GwIdle
  /\ UNCHANGED <<env, gem, store, stat>>

\* no summary computed
NoStats ==
  [threw |-> FALSE, rowCount |-> 0, columnCount |-> 0, columns |-> <<>>,
   numericStats |-> <<>>, categoricalStats |-> <<>>, dateStats |-> <<>>]

StatIdle ==
  [pc |-> "idle", data |-> <<>>, columns |-> <<>>, detected |-> FALSE, stats |-> NoStats,
   calls |-> 0, seeded |-> 0]

\* the environments of Spec: no credential, one credential or all three,
\* AI_PROVIDER and GEMINI_MODEL unset (SpecGateway covers the other
\* environments)
ServiceEnvs ==
  {e \in Envs :
     /\ e.AI_PROVIDER = "" /\ e.GEMINI_MODEL = ""
     /\ Cardinality({p \in ProviderNames : HasKey(e, p)}) # 2}

Init ==
  /\ env \in ServiceEnvs
  /\ gw = GwIdle
  /\ gem = GemOff
  /\ req = ReqIdle
  /\ store = <<>>
  /\ stat = StatIdle

Next ==
  \/ UploadFile
  \/ GetUserFiles
  \/ GetFileData
  \/ DeleteFile
  \/ GetSummaryStats
  \/ GenerateInsights
  \/ Chat
  \/ AIRespond
  \/ GwPreferred
  \/ GwFallback
  \/ GwExhausted
  \/ HuggingFaceCall
  \/ OpenAICall
  \/ GeminiDiscover
  \/ GeminiSdk
  \/ GeminiSdkOver
  \/ GeminiRest
  \/ GeminiAllFailed

Spec == Init /\ [][Next]_vars

(***************************************************************************)
(* SpecGateway: generateAIInsights invoked again and again, in every       *)
(* environment.                                                            *)
(***************************************************************************)
GwInvoke ==
  /\ gw.pc \in {"idle", "done"}
  /\ req.pc # "ai"
  /\ gw' = GwEntry(env)
  /\ UNCHANGED <<env, gem, req, store, stat>>

InitGateway ==
  /\ env \in Envs
  /\ gw = GwIdle
  /\ gem = GemOff
  /\ req = ReqIdle
  /\ store = <<>>
  /\ stat = StatIdle

NextGateway ==
  \/ GwInvoke
  \/ GwPreferred
  \/ GwFallback
  \/ GwExhausted
  \/ HuggingFaceCall
  \/ OpenAICall
  \/ GeminiDiscover
  \/ GeminiSdk
  \/ GeminiSdkOver
  \/ GeminiRest
  \/ GeminiAllFailed

SpecGateway == InitGateway /\ [][NextGateway]_vars

\* the steps of an invocation in progress
GwRun ==
  \/ GwPreferred
  \/ GwFallback
  \/ GwExhausted
  \/ HuggingFaceCall
  \/ OpenAICall
  \/ GeminiDiscover
  \/ GeminiSdk
  \/ GeminiSdkOver
  \/ GeminiRest
  \/ GeminiAllFailed

\* SpecGatewayFair: every provider request ends (it returns or throws) and
\* the event loop resumes the invocation after each await
SpecGatewayFair == InitGateway /\ [][NextGateway]_vars /\ WF_vars(GwRun)

(***************************************************************************)
(* Claims about the gateway (checked under SpecGateway)                    *)
(***************************************************************************)
\* the providers generateAIInsights is expected to attempt, in order: the
\* preferred provider when it is a provider with a credential, then the
\* others of HuggingFace, Gemini, OpenAI that have a credential
ExpectedAttempts(e) ==
  LET preferred == aiProviderOf(e)
      others == SelectSeq(<<"huggingface", "gemini", "openai">>,
                          LAMBDA p : p # preferred /\ HasKey(e, p))
  IN (IF preferred \in ProviderNames /\ HasKey(e, preferred) THEN <<preferred>> ELSE <<>>)
       \o others

C2_WitnessNoProvider ==
  /\ gw.pc = "done"
  /\ gw.result.kind = "NoProviderConfigured"
  /\ env.AI_PROVIDER = "OPENAI"

\* C3: a text returned by generateAIInsights is never empty, whitespace-only
\* or a placeholder: an empty or malformed provider answer is a failure of
\* that provider.
C3_NoEmptyOrPlaceholderAnswer ==
  gw.result.kind = "text" =>
    /\ Trim(gw.result.text) # <<>>
    /\ gw.result.text # PlaceholderText

(***************************************************************************)
(* SpecStats: generateSummaryStats applied to bounded tables.  stat holds  *)
(* the rows (data), the Column Descriptor list (columns) and, once         *)
(* computed, the summary (stats).  With detected = TRUE the descriptors    *)
(* are the ones processCSV derives from the rows, as for an uploaded       *)
(* file; with detected = FALSE they are an arbitrary list fixed at the     *)
(* start, as for a Table whose rows past the sample differ from it.  A     *)
(* table starts empty or as SeedTable (seeded rows), and grows by up to    *)
(* MaxRows rows.                                                           *)
(***************************************************************************)
\* the most rows read after the start
MaxRows == 2

\* the most calls of generateSummaryStats on one table
MaxCalls == 2

ColumnTypes == {"number", "date", "boolean", "string"}

StatCellsA == {Undefined, "", " ", "10", "2", " x", "true", "2020-01-05", "constructor"}
StatCellsB == {Undefined, "x"}

RowOf(a, b) ==
  (IF a = Undefined THEN <<>> ELSE <<Cell("a", a)>>)
    \o (IF b = Undefined THEN <<>> ELSE <<Cell("b", b)>>)

StatRows == {RowOf(a, b) : a \in StatCellsA, b \in StatCellsB}

\* a table of TopN rows with TopN distinct values in column a
SeedCells == <<"10", "2020-01-05", "2", "true", "12abc">>
SeedTable == [i \in 1..TopN |-> RowOf(SeedCells[i], "x")]

DescriptorLists ==
  {<<[name |-> n, type |-> t]>> : n \in {"a", "b"}, t \in ColumnTypes}
    \cup {<<[name |-> n[1], type |-> t1], [name |-> n[2], type |-> t2]>> :
            n \in {<<"a", "b">>, <<"b", "a">>}, t1 \in ColumnTypes, t2 \in ColumnTypes}

\* the descriptor lists of a table that starts as SeedTable: column a of any
\* type, then the string column b
SeedDescriptorLists ==
  {<<[name |-> "a", type |-> t], [name |-> "b", type |-> "string"]>> : t \in ColumnTypes}

InitStats ==
  /\ env \in {e \in Envs : e.AI_PROVIDER = "" /\ e.GEMINI_MODEL = "" /\ ~hasAnyProvider(e)}
  /\ gw = GwIdle
  /\ gem = GemOff
  /\ req = ReqIdle
  /\ store = <<>>
  /\ \E seed \in {<<>>, SeedTable} :
       \/ stat = [StatIdle EXCEPT !.pc = "input", !.detected = TRUE, !.data = seed,
                                  !.seeded = Len(seed),
                                  !.columns = processCSV(File(<<"csv">>, TRUE, TRUE, seed)).columns]
       \/ \E cols \in (IF seed = <<>> THEN DescriptorLists ELSE SeedDescriptorLists) :
            stat = [StatIdle EXCEPT !.pc = "input", !.columns = cols, !.data = seed,
                                   !.seeded = Len(seed)]

\* one more row is read
AddRow ==
  /\ Len(stat.data) < stat.seeded + MaxRows
  /\ \E row \in StatRows :
       LET data == Append(stat.data, row)
       IN stat' = [stat EXCEPT !.pc = "input", !.data = data, !.stats = NoStats,
                               !.calls = 0,
                               !.columns = IF stat.detected THEN processCSV(File(<<"csv">>, TRUE, TRUE, data)).columns
                                           ELSE @]
  /\ UNCHANGED <<env, gw, gem, req, store>>

\* DataAnalyzer.generateSummaryStats(data, columns): the call reads data
\* and columns and writes neither
Summarize ==
  /\ stat.pc = "input"
  /\ stat' = [stat EXCEPT !.pc = "done", !.calls = 1,
                          !.stats = generateSummaryStats(stat.data, stat.columns)]
  /\ UNCHANGED <<env, gw, gem, req, store>>

\* one more call on the same Table
SummarizeAgain ==
  /\ stat.pc = "done"
  /\ stat.calls < MaxCalls
  /\ stat' = [stat EXCEPT !.calls = @ + 1,
                          !.stats = generateSummaryStats(stat.data, stat.columns)]
  /\ UNCHANGED <<env, gw, gem, req, store>>

NextStats ==
  \/ AddRow
  \/ Summarize
  \/ SummarizeAgain

SpecStats == InitStats /\ [][NextStats]_vars

(***************************************************************************)
(* Claims about the statistics engine (checked under SpecStats)            *)
(***************************************************************************)
InMapping(obj, name) == \E i \in 1..Len(obj) : obj[i].k = name

\* the number of the three mappings that have name as a key
MappingsWith(stats, name) ==
  (IF InMapping(stats.numericStats, name) THEN 1 ELSE 0)
    + (IF InMapping(stats.categoricalStats, name) THEN 1 ELSE 0)
    + (IF InMapping(stats.dateStats, name) THEN 1 ELSE 0)

\* C10: for a non-empty Table and a descriptor list with types in number,
\* date, boolean, string, generateSummaryStats completes and every column
\* of the descriptor list is a key of exactly one of numericStats,
\* categoricalStats and dateStats.
C10_EveryColumnInExactlyOneMapping ==
  (stat.pc = "done" /\ Len(stat.data) > 0) =>
    /\ ~stat.stats.threw
    /\ \A i \in 1..Len(stat.columns) :
         MappingsWith(stat.stats, stat.columns[i].name) = 1

(***************************************************************************)
(* Claims about the request handlers (checked under Spec).  Requests are   *)
(* handled one at a time, so in every state the store is the store the     *)
(* last request (req) left behind.                                         *)
(***************************************************************************)
\* the Table fileId exists and is owned by user
OwnedBy(st, fileId, user) ==
  fileId \in 1..Len(st) /\ st[fileId].present /\ st[fileId].userId = user

\* the Table fileId exists and is owned by somebody else
OwnedByOther(st, fileId, user) ==
  fileId \in 1..Len(st) /\ st[fileId].present /\ st[fileId].userId # user

\* C4: a read or delete request for a Table of another user is answered 404
\* and leaves the store as it was (unless the store itself fails, and then
\* the store is left as it was too); a list request returns only Tables of
\* the requester.
C4_OwnershipOnReadDeleteList ==
  [][/\ (req'.kind \in {"getFileData", "deleteFile"}
           /\ OwnedByOther(store, req'.fileId, req'.user)) =>
          /\ store' = store
          /\ ~req'.dbFailed => req'.status = 404
     /\ (req'.kind = "getUserFiles" /\ req'.status = 200) =>
          /\ \A k \in 1..Len(req'.listed) : OwnedBy(store, req'.listed[k], req'.user)
          /\ \A id \in 1..Len(store) :
               OwnedBy(store, id, req'.user) => id \in Range(req'.listed)]_vars

\* a delete request for the Table of another user was answered 404 and the
\* Table is still there
C4_Witness ==
  /\ req.kind = "deleteFile"
  /\ req.pc = "done"
  /\ req.status = 404
  /\ OwnedByOther(store, req.fileId, req.user)

\* the request is one of the three AI-controller requests with a fileId
\* (and, for chat, a question that is not blank), answered, the store did
\* not fail
AIRequestAnswered ==
  /\ req.pc = "done"
  /\ req.kind \in {"generateInsights", "getSummaryStats", "chat"}
  /\ req.fileId # 0
  /\ req.kind = "chat" =>
       (req.question.present /\ \E k \in 1..Len(req.question.text) : req.question.text[k] # " ")
  /\ ~req.dbFailed

C6_CleanupOnEveryPath ==
  (req.pc = "done" /\ req.kind = "uploadFile" /\ req.file.present /\ req.file.onDisk) =>
    req.cleanups >= 1

\* the column list is not an array of objects with non-empty name and type
InvalidSchema(columns) ==
  \E i \in 1..Len(columns) : columns[i].name = "" \/ columns[i].type = ""

\* the file is one the claim says is never saved: no file, an extension
\* other than csv, xlsx, xls, a file the parser fails on, an invalid schema
NeverSaved(file) ==
  \/ ~file.present
  \/ LowerSegment(file.originalname[Len(file.originalname)]) \notin {"csv", "xlsx", "xls"}
  \/ ~file.onDisk
  \/ ~file.readable
  \/ (LowerSegment(file.originalname[Len(file.originalname)]) # "csv" /\ file.rows = <<>>)
  \/ \E i \in 1..Len(file.rows) : \E j \in 1..Len(file.rows[i]) : file.rows[i][j].k = ""

\* C7: an upload request changes the store if and only if it answers 201,
\* and then it adds exactly one record, owned by the uploader; a missing
\* file, an unsupported extension, a parser failure or an invalid column
\* schema leaves the store as it was and is not answered 201.
C7_SavedIffCreated ==
  [][req'.kind = "uploadFile" =>
       /\ req'.status = 201 <=> store' # store
       /\ req'.status = 201 =>
            /\ Len(store') = Len(store) + 1
            /\ SubSeq(store', 1, Len(store)) = store
            /\ store'[Len(store')].present
            /\ store'[Len(store')].userId = req'.user
            /\ store'[Len(store')].data = req'.file.rows
            /\ ~InvalidSchema(store'[Len(store')].columns)
       /\ NeverSaved(req'.file) => (store' = store /\ req'.status # 201)]_vars

\* an upload whose parsed columns include one without a name was answered
\* 500 and nothing was saved
C7_Witness ==
  /\ req.pc = "done"
  /\ req.kind = "uploadFile"
  /\ req.file.rows = RowsNoName
  /\ req.status = 500
  /\ req.saved = 0
  /\ store = <<>>

\* C8: getSummaryStats answers 200 for every existing Table of the caller
\* and calls no provider.
C8_SummaryAlwaysAvailable ==
  (req.pc = "done" /\ req.kind = "getSummaryStats" /\ ~req.dbFailed
     /\ OwnedBy(store, req.fileId, req.user)) =>
    /\ req.status = 200
    /\ req.aiCalls = 0

\* the question is missing, empty or made of spaces only
QuestionBlank(q) == ~q.present \/ \A k \in 1..Len(q.text) : q.text[k] = " "

\* C9: a chat request whose question is missing, empty or whitespace-only
\* is answered 400 at once, without a Table lookup and without a provider
\* call.
C9_BlankQuestionRejected ==
  (req.kind = "chat" /\ QuestionBlank(req.question)) =>
    /\ req.pc = "done"
    /\ req.status = 400
    /\ req.lookups = 0
    /\ req.aiCalls = 0

\* a chat request with the question ' ' for an existing Table of the caller,
\* with a credential configured, was answered 400
C9_Witness ==
  /\ req.kind = "chat"
  /\ req.pc = "done"
  /\ req.question = [present |-> TRUE, text |-> <<" ">>]
  /\ OwnedBy(store, req.fileId, req.user)
  /\ \E p \in ProviderNames : HasKey(env, p)
  /\ req.status = 400

(***************************************************************************)
(* More claims about the statistics engine (checked under SpecStats)       *)
(***************************************************************************)
\* the cell is a value of the column that survives the coercion of the
\* column's type
ValidFor(type, v) ==
  /\ v \notin {Null, Undefined, ""}
  /\ type = "number" => ParseFloatOk(v)
  /\ type = "date" => DateOk(v)

\* the indices of the rows with a valid value in the column
ValidRows(data, column) ==
  {i \in 1..Len(data) : ValidFor(column.type, Get(data[i], column.name))}

\* the entries recorded for the column in the three mappings
EntriesFor(stats, name) ==
  {e.v : e \in {x \in Range(stats.numericStats) \cup Range(stats.categoricalStats)
                           \cup Range(stats.dateStats) : x.k = name}}

\* C11: for a non-empty Table, generateSummaryStats completes and a column
\* with zero valid values has exactly the entry {nullCount: rowCount}.
C11_NullCountOnlyForEmptyColumn ==
  (stat.pc = "done" /\ Len(stat.data) > 0) =>
    \A i \in 1..Len(stat.columns) :
      ValidRows(stat.data, stat.columns[i]) = {} =>
        /\ ~stat.stats.threw
        /\ EntriesFor(stat.stats, stat.columns[i].name) = {[nullCount |-> Len(stat.data)]}

(***************************************************************************)
(* SpecDetect: detectColumnType applied to tables of one column, a, that   *)
(* are long enough for the sample to be a proper part of the table.  stat  *)
(* holds the rows (data), the number of rows read after the start          *)
(* (appended) and, once computed, the detected type of every column name   *)
(* (types).  A table starts as up to SampleRows rows whose cells are in    *)
(* the order of DetectCells, and then grows by rows of any cell.           *)
(***************************************************************************)
\* the rows read after the start
ExtraRows == 1

\* an empty cell, a number, a date, a boolean, a text
DetectCells == <<"", "10", "2020-01-05", "true", "x">>

DetectNames == {"a", "b"}

\* n rows {a: v}
Repeat(v, n) == [i \in 1..n |-> <<Cell("a", v)>>]

\* counts[k] rows of DetectCells[k], for k = 1, 2, ...
RECURSIVE Runs(_, _)
Runs(counts, k) ==
  IF k > Len(DetectCells) THEN <<>>
  ELSE Repeat(DetectCells[k], counts[k]) \o Runs(counts, k + 1)

RECURSIVE Total(_, _)
Total(counts, k) == IF k > Len(DetectCells) THEN 0 ELSE counts[k] + Total(counts, k + 1)

DetectIdle == [pc |-> "input", data |-> <<>>, appended |-> 0, types |-> <<>>]

InitDetect ==
  /\ env \in {e \in Envs : e.AI_PROVIDER = "" /\ e.GEMINI_MODEL = "" /\ ~hasAnyProvider(e)}
  /\ gw = GwIdle
  /\ gem = GemOff
  /\ req = ReqIdle
  /\ store = <<>>
  /\ \E counts \in [1..Len(DetectCells) -> 0..SampleRows] :
       /\ Total(counts, 1) <= SampleRows
       /\ stat = [DetectIdle EXCEPT !.data = Runs(counts, 1)]

\* one more row is read
AppendRow ==
  /\ stat.appended < ExtraRows
  /\ \E k \in 1..Len(DetectCells) :
       stat' = [stat EXCEPT !.pc = "input", !.data = Append(@, <<Cell("a", DetectCells[k])>>),
                            !.appended = @ + 1, !.types = <<>>]
  /\ UNCHANGED <<env, gw, gem, req, store>>

\* FileProcessor.detectColumnType(data, columnName) for every column name
Detect ==
  /\ stat.pc = "input"
  /\ stat' = [stat EXCEPT !.pc = "done",
                          !.types = [c \in DetectNames |-> detectColumnType(stat.data, c)]]
  /\ UNCHANGED <<env, gw, gem, req, store>>

NextDetect ==
  \/ AppendRow
  \/ Detect

SpecDetect == InitDetect /\ [][NextDetect]_vars

(***************************************************************************)
(* Claims about detectColumnType (checked under SpecDetect)                *)
(***************************************************************************)
\* the category the detector's rules put a cell in
CategoryOf(v) ==
  IF v \in {Null, Undefined, ""} THEN "empty"
  ELSE IF NumberOk(v) /\ ParseFloatOk(v) THEN "number"
  ELSE IF isValidDate(v) THEN "date"
  ELSE IF IsBooleanCell(v) THEN "boolean"
  ELSE "unclassified"

\* the sampled rows: the first min(10, rowCount)
SampledRows(data) == 1..(IF Len(data) < SampleRows THEN Len(data) ELSE SampleRows)

\* the number of sampled cells of the column that are in one of the categories
InCategories(data, name, categories) ==
  Cardinality({i \in SampledRows(data) : CategoryOf(Get(data[i], name)) \in categories})

\* C12 as stated: the detected type is 'string' whenever none of number,
\* date, boolean accounts for more than 70% of the non-empty sampled values
C12_StringBelow70OfNonEmpty ==
  stat.pc = "done" =>
    \A c \in DetectNames :
      (\A kind \in {"number", "date", "boolean"} :
         ~(10 * InCategories(stat.data, c, {kind})
             > 7 * InCategories(stat.data, c, {"number", "date", "boolean", "unclassified"})))
        => stat.types[c] = "string"

\* C12 amended: the detected type is 'string' exactly when none of number,
\* date, boolean accounts for more than 70% of the classified sampled values
\* (those counted as number, date or boolean; the unclassified non-empty
\* values are not in the denominator), which includes the samples without
\* any classified value; otherwise it is the category above 70%.
C12_StringBelow70OfClassified ==
  stat.pc = "done" =>
    \A c \in DetectNames :
      LET classified == InCategories(stat.data, c, {"number", "date", "boolean"})
          Above(kind) == 10 * InCategories(stat.data, c, {kind}) > 7 * classified
      IN /\ stat.types[c] = "string" <=> \A kind \in {"number", "date", "boolean"} : ~Above(kind)
         /\ stat.types[c] # "string" => Above(stat.types[c])
         /\ classified = 0 => stat.types[c] = "string"

\* ten sampled rows, seven of them numbers and three booleans: exactly 70%,
\* detected as 'string'
C12_Witness ==
  /\ stat.pc = "done"
  /\ Len(stat.data) >= SampleRows
  /\ InCategories(stat.data, "a", {"number"}) = 7
  /\ InCategories(stat.data, "a", {"boolean"}) = 3
  /\ stat.types["a"] = "string"

\* all sampled values are empty and the detected type is 'string'
C12_WitnessAllEmpty ==
  /\ stat.pc = "done"
  /\ Len(stat.data) >= SampleRows
  /\ InCategories(stat.data, "a", {"empty"}) = SampleRows
  /\ stat.types["a"] = "string"

\* C22: with validTotal the number of sampled values counted as number,
\* date or boolean, the detected type is number iff numberCount / validTotal
\* > 0.7, otherwise date iff dateCount / validTotal > 0.7, otherwise boolean
\* iff booleanCount / validTotal > 0.7, otherwise string; a largest category
\* of exactly 70% of validTotal yields string.
C22_StrictThresholdOverValidTotal ==
  stat.pc = "done" =>
    \A c \in DetectNames :
      LET numberCount == InCategories(stat.data, c, {"number"})
          dateCount == InCategories(stat.data, c, {"date"})
          booleanCount == InCategories(stat.data, c, {"boolean"})
          validTotal == numberCount + dateCount + booleanCount
          Over(count) == validTotal > 0 /\ 10 * count > 7 * validTotal
          Exactly(count) == validTotal > 0 /\ 10 * count = 7 * validTotal
      IN /\ stat.types[c] = (IF Over(numberCount) THEN "number"
                             ELSE IF Over(dateCount) THEN "date"
                             ELSE IF Over(booleanCount) THEN "boolean"
                             ELSE "string")
         /\ (Exactly(numberCount) \/ Exactly(dateCount) \/ Exactly(booleanCount))
              => stat.types[c] = "string"

\* ten sampled rows, two numbers and eight unclassified texts: detected as
\* 'number', the texts are not in the denominator
C22_Witness ==
  /\ stat.pc = "done"
  /\ Len(stat.data) >= SampleRows
  /\ InCategories(stat.data, "a", {"number"}) = 2
  /\ InCategories(stat.data, "a", {"unclassified"}) = 8
  /\ stat.types["a"] = "number"

\* ten sampled rows, seven dates and three booleans: exactly 70%, detected
\* as 'string'
C22_WitnessExactly70 ==
  /\ stat.pc = "done"
  /\ Len(stat.data) >= SampleRows
  /\ InCategories(stat.data, "a", {"date"}) = 7
  /\ InCategories(stat.data, "a", {"boolean"}) = 3
  /\ stat.types["a"] = "string"

\* C18: the types detected for a table of at least ten rows are the types
\* detected for its first ten rows alone, for every column name: two tables
\* with the same first ten rows get the same types.
C18_TypeDependsOnFirstTenRows ==
  (stat.pc = "done" /\ Len(stat.data) >= SampleRows) =>
    \A c \in DetectNames :
      stat.types[c] = detectColumnType(SubSeq(stat.data, 1, SampleRows), c)

\* an eleven-row table detected as 'string': seven numbers and three
\* booleans in the first ten rows, a number in the eleventh
C18_Witness ==
  /\ stat.pc = "done"
  /\ Len(stat.data) = SampleRows + 1
  /\ InCategories(stat.data, "a", {"number"}) = 7
  /\ InCategories(stat.data, "a", {"boolean"}) = 3
  /\ CategoryOf(Get(stat.data[SampleRows + 1], "a")) = "number"
  /\ stat.types["a"] = "string"

(***************************************************************************)
(* Claims about the per-type statistics (checked under SpecStats)          *)
(***************************************************************************)
\* the rows with a non-null, non-empty cell in the column
NonEmptyRows(data, name) == {i \in 1..Len(data) : Get(data[i], name) \notin {Null, Undefined, ""}}

\* the rows whose cell, trimmed, is the value
RowsWith(data, name, value) ==
  {i \in NonEmptyRows(data, name) : TrimCell(Get(data[i], name)) = value}

\* the distinct trimmed values of the column
DistinctValues(data, name) == {TrimCell(Get(data[i], name)) : i \in NonEmptyRows(data, name)}

\* the row in which the value is first encountered
FirstRow(data, name, value) ==
  CHOOSE i \in RowsWith(data, name, value) : \A j \in RowsWith(data, name, value) : i <= j

\* value u ranks before value w: it is more frequent, or as frequent and
\* encountered first
RanksBefore(data, name, u, w) ==
  \/ Cardinality(RowsWith(data, name, u)) > Cardinality(RowsWith(data, name, w))
  \/ /\ Cardinality(RowsWith(data, name, u)) = Cardinality(RowsWith(data, name, w))
     /\ FirstRow(data, name, u) < FirstRow(data, name, w)

\* the string columns of the descriptor list that have a non-empty value
StringColumns ==
  {i \in 1..Len(stat.columns) :
     stat.columns[i].type = "string" /\ NonEmptyRows(stat.data, stat.columns[i].name) # {}}

\* C13: for a string column, topValues is the first 5 of the ranking of
\* the distinct trimmed values by descending frequency, ties in the order
\* of first encounter, and mostFrequent is the first of the ranking.
C13_RankingByFrequencyThenFirstSeen ==
  (stat.pc = "done" /\ ~stat.stats.threw) =>
    \A i \in StringColumns :
      LET name == stat.columns[i].name
          entry == Get(stat.stats.categoricalStats, name)
          top == entry.topValues
          distinct == DistinctValues(stat.data, name)
      IN /\ Len(top) = (IF Cardinality(distinct) < TopN THEN Cardinality(distinct) ELSE TopN)
         /\ \A k \in 1..Len(top) : top[k].value \in distinct
         /\ \A k \in 1..Len(top) : \A l \in 1..Len(top) :
              k < l => RanksBefore(stat.data, name, top[k].value, top[l].value)
         /\ \A w \in distinct :
              (\A k \in 1..Len(top) : top[k].value # w) =>
                \A k \in 1..Len(top) : RanksBefore(stat.data, name, top[k].value, w)
         /\ entry.mostFrequent = top[1].value

\* the number columns of the descriptor list that have a coerced value
NumberColumns ==
  {i \in 1..Len(stat.columns) :
     stat.columns[i].type = "number" /\ ValidRows(stat.data, stat.columns[i]) # {}}

\* the coerced value of the column in row i
Coerced(data, name, i) == ParseFloat(Get(data[i], name))

RECURSIVE SumOver(_, _, _)
SumOver(data, name, rows) ==
  IF rows = {} THEN 0
  ELSE LET i == CHOOSE r \in rows : TRUE
       IN Coerced(data, name, i) + SumOver(data, name, rows \ {i})

\* the k-th smallest of the coerced values of the rows
KthSmallest(data, name, rows, k) ==
  CHOOSE v \in {Coerced(data, name, i) : i \in rows} :
    /\ Cardinality({i \in rows : Coerced(data, name, i) < v}) < k
    /\ Cardinality({i \in rows : Coerced(data, name, i) <= v}) >= k

C16_TopValues ==
  (stat.pc = "done" /\ ~stat.stats.threw) =>
    \A c \in StringColumns :
      LET name == stat.columns[c].name
          entry == Get(stat.stats.categoricalStats, name)
          top == entry.topValues
          total == Cardinality(NonEmptyRows(stat.data, name))
      IN /\ Len(top) <= 5
         /\ entry.totalCount = total
         /\ \A k \in 1..Len(top) :
              /\ top[k].count = Cardinality(RowsWith(stat.data, name, top[k].value))
              /\ top[k].count >= 1
              /\ 2 * (top[k].percentage * total - top[k].count * 10000) <= total
              /\ 2 * (top[k].count * 10000 - top[k].percentage * total) <= total
         /\ \A k \in 1..Len(top) : \A l \in 1..Len(top) : k # l => top[k].value # top[l].value
         /\ Sum([k \in 1..Len(top) |-> top[k].count]) <= total

Headers == {<<"a">>, <<"a", "b">>, <<"b", "a">>, <<"b", "2">>}

\* the cells of a row: absent, a number, a text
IngestCells == {Undefined, "10", "x"}

\* the row of a file with the header: values[i] is the cell under
\* header[i], Undefined when the row has none
RECURSIVE RowFrom(_, _)
RowFrom(header, values) ==
  IF header = <<>> THEN <<>>
  ELSE (IF Head(values) = Undefined THEN <<>> ELSE <<Cell(Head(header), Head(values))>>)
         \o RowFrom(Tail(header), Tail(values))

IngestIdle == [pc |-> "input", header |-> <<>>, data |-> <<>>, parser |-> "none",
               parsed |-> ParseFailed]

InitIngest ==
  /\ env \in {e \in Envs : e.AI_PROVIDER = "" /\ e.GEMINI_MODEL = "" /\ ~hasAnyProvider(e)}
  /\ gw = GwIdle
  /\ gem = GemOff
  /\ req = ReqIdle
  /\ store = <<>>
  /\ \E header \in Headers : stat = [IngestIdle EXCEPT !.header = header]

\* the file has one more data row
ReadRow ==
  /\ stat.pc = "input"
  /\ Len(stat.data) < MaxRows
  /\ \E values \in [1..Len(stat.header) -> IngestCells] :
       stat' = [stat EXCEPT !.data = Append(@, RowFrom(stat.header, values))]
  /\ UNCHANGED <<env, gw, gem, req, store>>

\* FileProcessor.processCSV on the file
ParseCSV ==
  /\ stat.pc = "input"
  /\ stat' = [stat EXCEPT !.pc = "done", !.parser = "csv",
                          !.parsed = processCSV(File(<<"data", "csv">>, TRUE, TRUE, stat.data))]
  /\ UNCHANGED <<env, gw, gem, req, store>>

\* FileProcessor.processExcel on the file
ParseExcel ==
  /\ stat.pc = "input"
  /\ stat' = [stat EXCEPT !.pc = "done", !.parser = "excel",
                          !.parsed = processExcel(File(<<"data", "xlsx">>, TRUE, TRUE, stat.data))]
  /\ UNCHANGED <<env, gw, gem, req, store>>

NextIngest ==
  \/ ReadRow
  \/ ParseCSV
  \/ ParseExcel

SpecIngest == InitIngest /\ [][NextIngest]_vars

(***************************************************************************)
(* Claims about the parsers (checked under SpecIngest)                     *)
(***************************************************************************)
\* the column names that occur in some row
NamesIn(data) == UNION {{data[i][j].k : j \in 1..Len(data[i])} : i \in 1..Len(data)}

\* where a name is first seen: the first row that has it, and its place there
FirstSeenRow(data, name) ==
  CHOOSE i \in 1..Len(data) :
    /\ \E j \in 1..Len(data[i]) : data[i][j].k = name
    /\ \A h \in 1..(i - 1) : \A j \in 1..Len(data[h]) : data[h][j].k # name

PlaceIn(row, name) == CHOOSE j \in 1..Len(row) : row[j].k = name

SeenBefore(data, u, w) ==
  \/ FirstSeenRow(data, u) < FirstSeenRow(data, w)
  \/ /\ FirstSeenRow(data, u) = FirstSeenRow(data, w)
     /\ PlaceIn(data[FirstSeenRow(data, u)], u) < PlaceIn(data[FirstSeenRow(data, w)], w)

\* C14: the Table a parser returns has rowCount equal to the number of
\* data rows, and its descriptor list holds every column name of every row
\* once, in first-seen order.
C14_RowCountAndFirstSeenColumns ==
  (stat.pc = "done" /\ stat.parsed.ok) =>
    LET columns == stat.parsed.columns
    IN /\ stat.parsed.rowCount = Len(stat.data)
       /\ stat.parsed.data = stat.data
       /\ {columns[i].name : i \in 1..Len(columns)} = NamesIn(stat.data)
       /\ Len(columns) = Cardinality(NamesIn(stat.data))
       /\ \A i \in 1..Len(columns) : \A j \in 1..Len(columns) :
            i < j => SeenBefore(stat.data, columns[i].name, columns[j].name)

(***************************************************************************)
(* More claims about the request handlers (checked under Spec)             *)
(***************************************************************************)
\* the lower-cased final dot-segment of the original file name
ExtensionOf(file) == LowerSegment(file.originalname[Len(file.originalname)])

\* C17: an upload whose file has an extension other than csv, xlsx, xls
\* is answered 400 and no parser is invoked; an upload with extension csv
\* goes to the CSV parser and one with xlsx or xls to the spreadsheet
\* parser, in any letter case.
C17_DispatchByExtension ==
  (req.kind = "uploadFile" /\ req.pc = "done" /\ req.file.present) =>
    /\ ExtensionOf(req.file) \notin {"csv", "xlsx", "xls"} =>
         (req.status = 400 /\ req.parser = "none" /\ req.saved = 0)
    /\ ExtensionOf(req.file) = "csv" => req.parser = "csv"
    /\ ExtensionOf(req.file) \in {"xlsx", "xls"} => req.parser = "excel"

\* the upload of Book.XLSX went to the spreadsheet parser and was saved
C17_Witness ==
  /\ req.kind = "uploadFile"
  /\ req.pc = "done"
  /\ req.file.originalname = <<"Book", "XLSX">>
  /\ req.parser = "excel"
  /\ req.status = 201

\* the upload of data.csv.bak was answered 400 without a parser
C17_WitnessUnsupported ==
  /\ req.kind = "uploadFile"
  /\ req.pc = "done"
  /\ req.file.originalname = <<"data", "csv", "bak">>
  /\ req.parser = "none"
  /\ req.status = 400

(***************************************************************************)
(* Termination of the gateway (checked under SpecGatewayFair)              *)
(***************************************************************************)
\* the number of calls of the provider in the invocation
CallsOf(p) == Cardinality({k \in 1..Len(gw.calls) : gw.calls[k].provider = p})

\* C20: every invocation of generateAIInsights in progress ends; it calls
\* each of the three providers at most once; and it has an outcome, one
\* text or one error, exactly when it has ended.
C20_TerminatesWithOneOutcome ==
  /\ (gw.pc \notin {"idle", "done"}) ~> (gw.pc = "done")
  /\ [](\A p \in ProviderNames : CallsOf(p) <= 1)
  /\ [](Len(gw.calls) <= 3)
  /\ [](gw.pc = "done" =>
          gw.result.kind \in {"text", "AllProvidersFailed", "NoProviderConfigured"})
  /\ [](gw.pc # "done" => gw.result = NoResult)

\* an invocation ended with a text after two providers had failed: each
\* of the three was called once
C20_Witness ==
  /\ gw.pc = "done"
  /\ gw.result.kind = "text"
  /\ \A p \in ProviderNames : CallsOf(p) = 1

(***************************************************************************)
(* SpecChat: the sample-data text of chat (aiController.js, lines 221-245) *)
(* applied to bounded Tables.  Cell values are null or strings, and a      *)
(* string is a sequence of characters, so that substring and join are      *)
(* computed.  stat holds the rows (data), the Column Descriptor list       *)
(* (columns) and, once built, the text (preview).                          *)
(***************************************************************************)
\* fileData.data.slice(0, 20)
PreviewRows == 20

\* String(val).substring(0, 30)
ValueLimit == 30

ChatNull == [kind |-> "null", text |-> <<>>]
ChatUndefined == [kind |-> "undefined", text |-> <<>>]
Str(t) == [kind |-> "string", text |-> t]

\* Object.prototype.constructor, what row['constructor'] is for a row
\* without that key
ObjectFunction == [kind |-> "function", text |-> <<>>]

\* String(Object)
ObjectSource ==
  <<"f", "u", "n", "c", "t", "i", "o", "n", " ", "O", "b", "j", "e", "c", "t", "(", ")",
    " ", "{", " ", "[", "n", "a", "t", "i", "v", "e", " ", "c", "o", "d", "e", "]", " ", "}">>

\* a string of n characters that ends in y
LongText(n) == [i \in 1..n |-> IF i = n THEN "y" ELSE "x"]

\* null, '', a string of 30 characters and one of 31
ChatValues == {ChatNull, Str(<<>>), Str(LongText(ValueLimit)), Str(LongText(ValueLimit + 1))}

ChatColumnLists ==
  {<<[name |-> "a", type |-> "string"]>>,
   <<[name |-> "a", type |-> "string"], [name |-> "b", type |-> "string"]>>,
   <<[name |-> "b", type |-> "string"], [name |-> "a", type |-> "string"]>>,
   <<[name |-> "a", type |-> "string"], [name |-> "constructor", type |-> "string"]>>}

\* row[name] of a plain object: the own property, else the inherited one
RECURSIVE Lookup(_, _)
Lookup(row, name) ==
  IF row = <<>> THEN (IF name \in InheritedKeys THEN ObjectFunction ELSE ChatUndefined)
  ELSE IF Head(row).k = name THEN Head(row).v
  ELSE Lookup(Tail(row), name)

\* String(val)
ToText(val) ==
  CASE val.kind = "string" -> val.text
    [] val.kind = "function" -> ObjectSource
    [] val.kind = "null" -> <<"n", "u", "l", "l">>
    [] OTHER -> <<"u", "n", "d", "e", "f", "i", "n", "e", "d">>

\* s.substring(0, n)
Substring(t, n) == SubSeq(t, 1, Min(n, Len(t)))

NA == <<"N", "/", "A">>

\* the callback of fileData.columns.map, lines 234-238
RenderValue(row, name) ==
  LET val == Lookup(row, name)
  IN IF val = ChatNull \/ val = ChatUndefined THEN NA
     ELSE Substring(ToText(val), ValueLimit)

\* Array.prototype.join(' | ')
RECURSIVE Join(_)
Join(parts) ==
  IF parts = <<>> THEN <<>>
  ELSE IF Len(parts) = 1 THEN Head(parts)
  ELSE Head(parts) \o <<" ", "|", " ">> \o Join(Tail(parts))

NoPreview == [present |-> FALSE, shown |-> 0, lines |-> <<>>, more |-> 0]

\* sampleDataText of chat: the number in its title (shown), the lines after
\* the header and the rule (lines) and the number in the trailing note
\* (more; 0: no note)
sampleDataText(data, columns) ==
  IF Len(data) = 0 THEN NoPreview
  ELSE LET sampleRows == SubSeq(data, 1, Min(PreviewRows, Len(data)))
       IN [present |-> TRUE,
           shown |-> Len(sampleRows),
           lines |-> [i \in 1..Len(sampleRows) |->
                        Join([c \in 1..Len(columns) |->
                                RenderValue(sampleRows[i], columns[c].name)])],
           more |-> IF Len(data) > PreviewRows THEN Len(data) - PreviewRows ELSE 0]

\* a row with the value in every column
FullRow(columns, value) == [c \in 1..Len(columns) |-> Cell(columns[c].name, value)]

\* the rows a parser can yield for the columns: per column a value or no key
RECURSIVE RowsOver(_)
RowsOver(columns) ==
  IF columns = <<>> THEN {<<>>}
  ELSE {first \o rest : first \in {<<>>} \cup {<<Cell(Head(columns).name, v)>> : v \in ChatValues},
                        rest \in RowsOver(Tail(columns))}

ChatIdle == [pc |-> "input", data |-> <<>>, columns |-> <<>>, appended |-> 0, preview |-> NoPreview]

InitChat ==
  /\ env \in {e \in Envs : e.AI_PROVIDER = "" /\ e.GEMINI_MODEL = "" /\ ~hasAnyProvider(e)}
  /\ gw = GwIdle
  /\ gem = GemOff
  /\ req = ReqIdle
  /\ store = <<>>
  /\ \E columns \in ChatColumnLists, n \in 0..(PreviewRows + 1) :
       stat = [ChatIdle EXCEPT !.columns = columns,
                               !.data = [i \in 1..n |-> FullRow(columns, Str(<<"x">>))]]

\* one more row is read
AppendChatRow ==
  /\ stat.appended < ExtraRows
  /\ \E row \in RowsOver(stat.columns) :
       stat' = [stat EXCEPT !.pc = "input", !.data = Append(@, row), !.appended = @ + 1,
                            !.preview = NoPreview]
  /\ UNCHANGED <<env, gw, gem, req, store>>

\* chat builds the sample-data text of its prompt
BuildPreview ==
  /\ stat.pc = "input"
  /\ stat' = [stat EXCEPT !.pc = "done", !.preview = sampleDataText(stat.data, stat.columns)]
  /\ UNCHANGED <<env, gw, gem, req, store>>

NextChat ==
  \/ AppendChatRow
  \/ BuildPreview

SpecChat == InitChat /\ [][NextChat]_vars

\* the own value of the row for the name, null for a row without the key
OwnValue(row, name) ==
  IF \E k \in 1..Len(row) : row[k].k = name
    THEN row[CHOOSE k \in 1..Len(row) : row[k].k = name].v
    ELSE ChatNull

\* what the value of a row is to be shown as: N/A for null or missing,
\* else its first 30 characters
Shown(row, name) ==
  LET val == OwnValue(row, name)
  IN IF val = ChatNull THEN NA
     ELSE [i \in 1..Min(ValueLimit, Len(val.text)) |-> val.text[i]]

\* C21: the text embeds the first min(20, rowCount) rows in Table order,
\* each as its descriptor columns' values joined by ' | ', a value cut to
\* 30 characters and a null or missing value shown as N/A; it has the note
\* iff rowCount > 20, and the note states rowCount - 20.
C21_PreviewOfFirstTwentyRows ==
  stat.pc = "done" =>
    LET n == Len(stat.data)
        shown == IF n < PreviewRows THEN n ELSE PreviewRows
    IN /\ Len(stat.preview.lines) = shown
       /\ \A i \in 1..shown :
            stat.preview.lines[i]
              = Join([c \in 1..Len(stat.columns) |-> Shown(stat.data[i], stat.columns[c].name)])
       /\ (stat.preview.more # 0) <=> (n > PreviewRows)
       /\ n > PreviewRows => stat.preview.more = n - PreviewRows

(***************************************************************************)
(* SpecGemini: one callGemini invocation as a process with its history.    *)
(* stat holds where the invocation is (pc), what the discovery request did *)
(* (discovery), availableModels, the two candidate lists with their loop   *)
(* indices, the attempts made so far, each with its path, model name and   *)
(* what the loop body did with the response (next), the number of times    *)
(* the REST path was entered and the outcome.                              *)
(***************************************************************************)
\* an entry of data.models of the list endpoint: the name, without its
\* 'models/' prefix, and whether supportedGenerationMethods has generateContent
Listed(name, generate) == [name |-> name, generate |-> generate]

\* what the list request does before the 2 s timer fires, or "slow": the
\* timer fires first.  "threw": a fetch or json() rejects; "notOk": neither
\* endpoint answers ok; "noModels": the body has no models; "models": the
\* body lists models
DiscoveryResponses ==
  {[kind |-> k, models |-> <<>>] : k \in {"threw", "notOk", "noModels", "slow", "models"}}
    \cup {[kind |-> "models", models |-> l] :
            l \in {<<Listed("embedding-001", FALSE)>>,
                   <<Listed("gemini-pro", TRUE), Listed("gemini-1.5-flash", TRUE)>>,
                   <<Listed("gemini-2.0-flash", TRUE), Listed("embedding-001", FALSE),
                     Listed("aqa", TRUE), Listed("gemini-1.5-pro", TRUE)>>,
                   <<Listed("aqa", TRUE)>>}}

\* data.models.filter(generateContent is supported).map(name)
RECURSIVE GenerativeNames(_)
GenerativeNames(models) ==
  IF models = <<>> THEN <<>>
  ELSE (IF Head(models).generate THEN <<Head(models).name>> ELSE <<>>)
         \o GenerativeNames(Tail(models))

\* getAvailableGeminiModels: the names, the empty list standing for null
getAvailableGeminiModels(resp) ==
  IF resp.kind = "models" THEN GenerativeNames(resp.models) ELSE <<>>

\* Promise.race of getAvailableGeminiModels against the 2 s timer
raceAvailableModels(resp) ==
  IF resp.kind = "slow" THEN <<>> ELSE getAvailableGeminiModels(resp)

CgIdle ==
  [pc |-> "start", discovery |-> "none", availableModels |-> <<>>,
   modelOptions |-> <<>>, i |-> 0, restModelOptions |-> <<>>, j |-> 0,
   attempts |-> <<>>, restEntries |-> 0,
   outcome |-> [kind |-> "none", error |-> "", text |-> <<>>]]

CgReturned(s, text) ==
  [s EXCEPT !.pc = "done", !.outcome = [kind |-> "returned", error |-> "", text |-> text]]

CgThrew(s, error) ==
  [s EXCEPT !.pc = "done", !.outcome = [kind |-> "threw", error |-> error, text |-> <<>>]]

\* an attempt: the path, the model name, the response (its kind and text)
\* and what the loop body did
Attempt(path, model, resp, a) ==
  [path |-> path, model |-> model, kind |-> resp.kind, text |-> resp.text, next |-> a.next]

InitGemini ==
  /\ env \in {e \in Envs : e.AI_PROVIDER = "" /\ ~e.HUGGINGFACE_API_KEY /\ ~e.OPENAI_API_KEY}
  /\ gw = GwIdle
  /\ gem = GemOff
  /\ req = ReqIdle
  /\ store = <<>>
  /\ stat = CgIdle

\* callGemini lines 489-545: key check, model discovery, candidate list
CallGeminiDiscover ==
  /\ stat.pc = "start"
  /\ IF ~env.GEMINI_API_KEY
       THEN stat' = CgThrew(stat, "noKey")
       ELSE \E resp \in DiscoveryResponses :
              LET avail == raceAvailableModels(resp)
              IN stat' = [stat EXCEPT !.pc = "sdk", !.discovery = resp.kind,
                                      !.availableModels = avail,
                                      !.modelOptions = modelOptions(env, avail), !.i = 1]
  /\ UNCHANGED <<env, gw, gem, req, store>>

\* callGemini lines 550-591: one candidate of the SDK loop
CallGeminiSdk ==
  /\ stat.pc = "sdk"
  /\ stat.i <= Len(stat.modelOptions)
  /\ \E resp \in SdkResponses :
       LET a == sdkAttempt(resp)
           tried == [stat EXCEPT !.attempts =
                       Append(@, Attempt("sdk", stat.modelOptions[stat.i], resp, a))]
       IN stat' = IF a.next = "continue" THEN [tried EXCEPT !.i = @ + 1]
                  ELSE IF a.next = "return" THEN CgReturned(tried, a.text)
                  ELSE CgThrew(tried, IF resp.kind = "text" THEN "emptyResponse" ELSE "sdkError")
  /\ UNCHANGED <<env, gw, gem, req, store>>

\* callGemini lines 593-599: the SDK loop is over, the REST candidates
CallGeminiSdkOver ==
  /\ stat.pc = "sdk"
  /\ stat.i > Len(stat.modelOptions)
  /\ stat' = [stat EXCEPT !.pc = "rest",
                          !.restModelOptions = restModelOptions(stat.availableModels),
                          !.j = 1, !.restEntries = @ + 1]
  /\ UNCHANGED <<env, gw, gem, req, store>>

\* callGemini lines 601-650: one candidate of the REST loop
CallGeminiRest ==
  /\ stat.pc = "rest"
  /\ stat.j <= Len(stat.restModelOptions)
  /\ \E resp \in RestResponses :
       LET a == restAttempt(resp)
           tried == [stat EXCEPT !.attempts =
                       Append(@, Attempt("rest", stat.restModelOptions[stat.j], resp, a))]
       IN stat' = IF a.next = "continue" THEN [tried EXCEPT !.j = @ + 1]
                  ELSE IF a.next = "return" THEN CgReturned(tried, a.text)
                  ELSE CgThrew(tried, "restError")
  /\ UNCHANGED <<env, gw, gem, req, store>>

\* callGemini lines 652-667: every candidate failed
CallGeminiAllFailed ==
  /\ stat.pc = "rest"
  /\ stat.j > Len(stat.restModelOptions)
  /\ stat' = CgThrew(stat, "allFailed")
  /\ UNCHANGED <<env, gw, gem, req, store>>

NextGemini ==
  \/ CallGeminiDiscover
  \/ CallGeminiSdk
  \/ CallGeminiSdkOver
  \/ CallGeminiRest
  \/ CallGeminiAllFailed

SpecGemini == InitGemini /\ [][NextGemini]_vars

\* SpecGeminiFair: every request of the invocation ends (the list request
\* is raced against a timer that fires) and the awaiting code resumes
SpecGeminiFair == InitGemini /\ [][NextGemini]_vars /\ WF_vars(NextGemini)

(***************************************************************************)
(* Claims about callGemini (checked under SpecGemini)                      *)
(***************************************************************************)
\* the attempts made on a path, as indices into stat.attempts
AttemptsOn(path) == {k \in 1..Len(stat.attempts) : stat.attempts[k].path = path}

\* an SDK attempt that failed with an error that is not model-not-found:
\* a rejected call, or an empty or blank text
FailedOtherwise(a) == a.path = "sdk" /\ (a.kind = "error" \/ (a.kind = "text" /\ a.next = "throw"))

\* C23: on the SDK path a candidate that fails with model-not-found is
\* followed by the next candidate (or, after the last one, by the end of
\* the loop), without ending the invocation; a candidate that fails with
\* another error, an empty response included, ends the invocation with
\* that error: it is the last attempt and the REST path is not entered.
C23_SdkNotFoundAdvancesOtherErrorAborts ==
  \A k \in AttemptsOn("sdk") :
    LET a == stat.attempts[k]
    IN /\ a.model = stat.modelOptions[k]
       /\ a.kind = "notFound" =>
            /\ a.next = "continue"
            /\ k = Len(stat.attempts) =>
                 /\ stat.pc \in {"sdk", "rest"}
                 /\ stat.i = k + 1
                 /\ stat.pc = "rest" => k = Len(stat.modelOptions)
                 /\ stat.outcome.kind = "none"
            /\ (k < Len(stat.attempts) /\ k < Len(stat.modelOptions)) =>
                 /\ stat.attempts[k + 1].path = "sdk"
                 /\ stat.attempts[k + 1].model = stat.modelOptions[k + 1]
       /\ FailedOtherwise(a) =>
            /\ k = Len(stat.attempts)
            /\ stat.pc = "done"
            /\ stat.outcome.kind = "threw"
            /\ stat.outcome.error = (IF a.kind = "text" THEN "emptyResponse" ELSE "sdkError")
            /\ stat.restEntries = 0

\* the first candidate was not found and the second answered with an
\* empty text: the invocation failed with the empty-response error
C23_Witness ==
  /\ stat.pc = "done"
  /\ Len(stat.attempts) = 2
  /\ stat.attempts[1].kind = "notFound"
  /\ stat.attempts[2].kind = "text"
  /\ stat.outcome.error = "emptyResponse"
  /\ Len(stat.modelOptions) > 2

\* the discovery and the candidate list are done
Discovered == stat.discovery # "none"

\* every candidate of the SDK path was attempted and failed with
\* model-not-found (which holds of an empty candidate list)
AllSdkNotFound ==
  /\ Cardinality(AttemptsOn("sdk")) = Len(stat.modelOptions)
  /\ \A k \in AttemptsOn("sdk") : stat.attempts[k].kind = "notFound"

\* a REST attempt whose response carries a text
YieldsText(a) == a.path = "rest" /\ a.kind = "okText" /\ Truthy(a.text)

\* C24: the REST path is entered iff every SDK candidate failed with
\* model-not-found, and at most once; a REST response with a text ends the
\* invocation, which returns that text; the 'all Gemini models failed'
\* error is thrown only after the REST path was entered and every REST
\* candidate was attempted without yielding a text.
C24_RestPathOnceAfterAllNotFound ==
  /\ stat.restEntries <= 1
  /\ stat.restEntries = 1 => AllSdkNotFound
  /\ (Discovered /\ AllSdkNotFound /\ stat.pc # "sdk") => stat.restEntries = 1
  /\ AttemptsOn("rest") # {} => stat.restEntries = 1
  /\ \A k \in AttemptsOn("rest") :
       YieldsText(stat.attempts[k]) =>
         /\ k = Len(stat.attempts)
         /\ stat.pc = "done"
         /\ stat.outcome.kind = "returned"
         /\ stat.outcome.text = Trim(stat.attempts[k].text)
  /\ stat.outcome.error = "allFailed" =>
       /\ stat.restEntries = 1
       /\ Cardinality(AttemptsOn("rest")) = Len(stat.restModelOptions)
       /\ \A k \in AttemptsOn("rest") : ~YieldsText(stat.attempts[k])

\* two candidates were not found on the SDK path, the first REST candidate
\* answered 404 and the second with a text, which was returned
C24_Witness ==
  /\ stat.pc = "done"
  /\ Cardinality(AttemptsOn("sdk")) = 2
  /\ Cardinality(AttemptsOn("rest")) = 2
  /\ stat.attempts[3].kind = "http404"
  /\ YieldsText(stat.attempts[4])
  /\ stat.outcome.kind = "returned"

\* every candidate of both paths failed and the final error was thrown
C24_WitnessAllFailed ==
  /\ stat.pc = "done"
  /\ stat.outcome.error = "allFailed"
  /\ Cardinality(AttemptsOn("sdk")) = 7
  /\ Cardinality(AttemptsOn("rest")) = 3

\* the discovery yielded no model: the request failed, listed no model
\* that supports generateContent, or lost the race against the timer
NothingDiscovered ==
  \/ stat.discovery \in {"threw", "notOk", "noModels", "slow"}
  \/ stat.discovery = "models" /\ stat.availableModels = <<>>

\* C25 (checked under SpecGeminiFair): an invocation that has its API key
\* gets past the discovery to the model attempts, in one step that does not
\* end the invocation, whatever the list request does; and when the
\* discovery yielded no model the candidates are the override, if set,
\* followed by the static list.
C25_DiscoveryNeverBlocks ==
  /\ (stat.pc = "start" /\ env.GEMINI_API_KEY) ~> (Discovered /\ stat.pc # "start")
  /\ [][(stat.pc = "start" /\ env.GEMINI_API_KEY) =>
          (stat'.pc = "sdk" /\ stat'.outcome.kind = "none" /\ stat'.discovery # "none")]_vars
  /\ [](Discovered /\ NothingDiscovered =>
          /\ stat.availableModels = <<>>
          /\ stat.modelOptions
               = (IF env.GEMINI_MODEL # "" THEN <<env.GEMINI_MODEL>> ELSE <<>>) \o staticModels
          /\ stat.restEntries = 1 => stat.restModelOptions = restStaticModels)

\* the timer fired before the list request ended, and the first static
\* candidate was attempted
C25_Witness ==
  /\ stat.discovery = "slow"
  /\ Len(stat.attempts) = 1
  /\ stat.attempts[1].path = "sdk"
  /\ stat.attempts[1].model = staticModels[1]
  /\ env.GEMINI_MODEL = ""

\* the flash variants and the pro variants among the model names
IsFlash(m) == m \in {"gemini-1.5-flash", "gemini-1.5-flash-latest", "gemini-2.0-flash"}
IsPro(m) == m \in {"gemini-1.5-pro", "gemini-1.5-pro-latest", "gemini-pro", "gemini-1.0-pro"}

\* the position in the candidate list after the override
AfterOverride == IF env.GEMINI_MODEL # "" THEN 2 ELSE 1

\* C26: the SDK attempts follow the candidate list; the override, when
\* set, is the first candidate; and after it no pro variant is attempted
\* while a flash variant is still later in the list.
C26_OverrideThenFlashThenPro ==
  /\ Discovered /\ env.GEMINI_MODEL # "" => stat.modelOptions[1] = env.GEMINI_MODEL
  /\ \A k \in AttemptsOn("sdk") :
       /\ stat.attempts[k].model = stat.modelOptions[k]
       /\ (k >= AfterOverride /\ IsPro(stat.attempts[k].model)) =>
            \A later \in (k + 1)..Len(stat.modelOptions) : ~IsFlash(stat.modelOptions[later])

\* C27: within one invocation no model name is attempted more than once
\* on the SDK path.
C27_NoModelAttemptedTwice ==
  \A k1 \in AttemptsOn("sdk"), k2 \in AttemptsOn("sdk") :
    k1 # k2 => stat.attempts[k1].model # stat.attempts[k2].model

(***************************************************************************)
(* C28: every handler sends exactly one HTTP response per request, on      *)
(* every path, the paths where the parser, the store or the gateway fails  *)
(* included: a request whose handling has ended was answered once.         *)
(***************************************************************************)
C28_ExactlyOneResponse ==
  (req.pc \in {"done", "crashed"}) => req.responses = 1

(***************************************************************************)
(* SpecDelete: two DELETE /files/:fileId requests of the owner of one      *)
(* Table, handled concurrently.  deleteFile has one await: the handler     *)
(* runs up to the call of FileData.findOneAndDelete, the store executes    *)
(* the operation (atomically, or it fails), and the handler resumes with   *)
(* the result and answers.  stat keeps the two requests, the Table they    *)
(* name and the store as it was before them.                               *)
(***************************************************************************)
MaxStored == 2

Deleters == 1..2

\* a Table of user u
StoredTable(u) ==
  NewDocument(u, "csv", processCSV(File(<<"data", "csv">>, TRUE, TRUE, RowsGood)))

\* the stores the two requests may find: up to MaxStored Tables
DeleteStores ==
  UNION {[1..n -> {StoredTable(u) : u \in Users}] : n \in 1..MaxStored}

InitDelete ==
  /\ env \in {e \in ServiceEnvs : \A p \in ProviderNames : ~HasKey(e, p)}
  /\ gw = GwIdle
  /\ gem = GemOff
  /\ req = ReqIdle
  /\ store \in DeleteStores
  /\ \E target \in 1..Len(store) :
       stat = [target |-> target, before |-> store,
               reqs |-> [p \in Deleters |->
                          NewRequest("deleteFile", store[target].userId, target,
                                     NoQuestion, NoFile)]]

\* lines 196-203: the handler reads fileId and userId and calls
\* findOneAndDelete; it is suspended at the await
DeleteCall(p) ==
  /\ stat.reqs[p].pc = "start"
  /\ stat' = [stat EXCEPT !.reqs[p].pc = "awaiting"]
  /\ UNCHANGED <<env, gw, gem, req, store>>

\* the store executes the operation of request p: one atomic find-and-remove,
\* or a failure that rejects the promise
DeleteExecute(p) ==
  /\ stat.reqs[p].pc = "awaiting"
  /\ \E dbOk \in BOOLEAN :
       IF dbOk
         THEN LET deleted == findOneAndDelete(store, stat.reqs[p].fileId, stat.reqs[p].user)
              IN /\ store' = deleted.store
                 /\ stat' = [stat EXCEPT !.reqs[p].pc = "resolved",
                                         !.reqs[p].lookups = @ + 1,
                                         !.reqs[p].found = deleted.doc]
         ELSE /\ store' = store
              /\ stat' = [stat EXCEPT !.reqs[p].pc = "rejected",
                                      !.reqs[p].lookups = @ + 1,
                                      !.reqs[p].dbFailed = TRUE]
  /\ UNCHANGED <<env, gw, gem, req>>

\* lines 205-223: the handler resumes and answers
DeleteRespond(p) ==
  /\ stat.reqs[p].pc \in {"resolved", "rejected"}
  /\ stat' = [stat EXCEPT !.reqs[p] =
                IF @.pc = "rejected" THEN Respond(@, 500, "Error deleting file")
                ELSE IF @.found = 0 THEN Respond(@, 404, "File not found")
                ELSE Respond(@, 200, "File deleted successfully")]
  /\ UNCHANGED <<env, gw, gem, req, store>>

NextDelete ==
  \/ \E p \in Deleters : DeleteCall(p)
  \/ \E p \in Deleters : DeleteExecute(p)
  \/ \E p \in Deleters : DeleteRespond(p)

SpecDelete == InitDelete /\ [][NextDelete]_vars

\* both requests were answered, and the store executed both operations
BothDeleted ==
  \A p \in Deleters : stat.reqs[p].pc = "done" /\ ~stat.reqs[p].dbFailed

(***************************************************************************)
(* C29: when two delete requests of the owner for the same Table run       *)
(* concurrently and the store executes both operations, then in every      *)
(* interleaving one request is answered 200 and the other 404, each once,  *)
(* the Table is absent from the store afterwards, and at no moment is      *)
(* another Table of the store changed.                                     *)
(***************************************************************************)
C29_OneSuccessOneNotFound ==
  /\ Len(store) = Len(stat.before)
  /\ \A i \in 1..Len(store) : i # stat.target => store[i] = stat.before[i]
  /\ BothDeleted =>
       /\ \E p \in Deleters, q \in Deleters :
            /\ p # q
            /\ stat.reqs[p].status = 200
            /\ stat.reqs[q].status = 404
       /\ \A p \in Deleters : stat.reqs[p].responses = 1
       /\ ~store[stat.target].present

\* the request that was second to call is the one the store serves first:
\* it is answered 200, the other 404, next to a Table of another user
C29_Witness ==
  /\ BothDeleted
  /\ stat.reqs[1].status = 404
  /\ stat.reqs[2].status = 200
  /\ Len(store) = MaxStored
  /\ \E i \in 1..Len(store) :
       i # stat.target /\ store[i].present /\ store[i].userId # stat.reqs[1].user

(***************************************************************************)
(* SpecFormat: DataAnalyzer.formatStatsForAI applied to the summary of     *)
(* ingested CSV tables with the header line 2021,name,2020.  A record of   *)
(* csv-parser has the keys of the cells its line holds, so a short line    *)
(* gives a row with the first keys only.  stat holds the rows (data), the  *)
(* Column Descriptor list processCSV derives from them (columns), the      *)
(* summary (stats) and the formatted text (text), as the sequence of its   *)
(* parts.                                                                  *)
(***************************************************************************)
FormatHeaders == <<"2021", "name", "2020">>

\* the cells a line may hold under each header
FormatCells == <<{"10", "x"}, {"x", "2020-01-05"}, {"10", "2020-01-05"}>>

\* the records of the lines with 1, 2 or 3 cells
FormatRows ==
  UNION {{[i \in 1..n |-> Cell(FormatHeaders[i], v[i])] :
            v \in {w \in [1..n -> CellStrings] : \A i \in 1..n : w[i] \in FormatCells[i]}} :
         n \in 1..Len(FormatHeaders)}

NoText == [written |-> FALSE, rowCount |-> 0, columnCount |-> 0, columns |-> <<>>,
           sections |-> <<>>]

\* if (Object.keys(section).length > 0): the title line, then one block per
\* entry of Object.entries(section), headed by the column name
Section(title, section) ==
  IF Len(Keys(section)) > 0
    THEN <<[title |-> title, columns |-> Keys(section)]>>
    ELSE <<>>

\* formatStatsForAI: the parts of the prompt in the order they are appended
formatStatsForAI(summaryStats) ==
  [written |-> TRUE,
   rowCount |-> summaryStats.rowCount,
   columnCount |-> summaryStats.columnCount,
   columns |-> summaryStats.columns,
   sections |-> Section("Numeric Statistics", summaryStats.numericStats)
                  \o Section("Categorical Statistics", summaryStats.categoricalStats)
                  \o Section("Date Statistics", summaryStats.dateStats)]

FormatIdle ==
  [pc |-> "input", data |-> <<>>, columns |-> <<>>, stats |-> NoStats, text |-> NoText]

InitFormat ==
  /\ env \in {e \in Envs : e.AI_PROVIDER = "" /\ e.GEMINI_MODEL = "" /\ ~hasAnyProvider(e)}
  /\ gw = GwIdle
  /\ gem = GemOff
  /\ req = ReqIdle
  /\ store = <<>>
  /\ stat = FormatIdle

\* one more line of the file is parsed
FormatAddRow ==
  /\ stat.pc = "input"
  /\ Len(stat.data) < MaxRows
  /\ \E row \in FormatRows :
       LET data == Append(stat.data, row)
       IN stat' = [stat EXCEPT !.data = data,
                               !.columns = processCSV(File(<<"csv">>, TRUE, TRUE, data)).columns]
  /\ UNCHANGED <<env, gw, gem, req, store>>

\* DataAnalyzer.generateSummaryStats(fileData.data, fileData.columns)
FormatSummarize ==
  /\ stat.pc = "input"
  /\ stat' = [stat EXCEPT !.pc = "summarized",
                          !.stats = generateSummaryStats(stat.data, stat.columns)]
  /\ UNCHANGED <<env, gw, gem, req, store>>

\* DataAnalyzer.formatStatsForAI(summaryStats), reached when
\* generateSummaryStats returned
FormatText ==
  /\ stat.pc = "summarized"
  /\ ~stat.stats.threw
  /\ stat' = [stat EXCEPT !.pc = "formatted", !.text = formatStatsForAI(stat.stats)]
  /\ UNCHANGED <<env, gw, gem, req, store>>

NextFormat ==
  \/ FormatAddRow
  \/ FormatSummarize
  \/ FormatText

SpecFormat == InitFormat /\ [][NextFormat]_vars

\* the place of column name in the Column Descriptor list
DescriptorPlace(columns, name) == CHOOSE i \in 1..Len(columns) : columns[i].name = name

\* the place of a section title in the fixed order
TitlePlace(title) ==
  CASE title = "Numeric Statistics" -> 1
    [] title = "Categorical Statistics" -> 2
    [] title = "Date Statistics" -> 3
    [] OTHER -> 0

(***************************************************************************)
(* C30: formatStatsForAI emits its sections in the order numeric,          *)
(* categorical, date, none of them empty, and within each section the      *)
(* columns follow one another as in the Column Descriptor list, for        *)
(* numeric-looking column names too.                                       *)
(***************************************************************************)
C30_SectionsAndColumnsInDescriptorOrder ==
  stat.pc = "formatted" =>
    LET sections == stat.text.sections
    IN /\ \A i \in 1..Len(sections), j \in 1..Len(sections) :
            i < j => TitlePlace(sections[i].title) < TitlePlace(sections[j].title)
       /\ \A i \in 1..Len(sections) :
            LET names == sections[i].columns
            IN /\ Len(names) > 0
               /\ \A k \in 1..Len(names), l \in 1..Len(names) :
                    k < l => DescriptorPlace(stat.columns, names[k])
                               < DescriptorPlace(stat.columns, names[l])

====
